---- MODULE Spec2Model ----
(***************************************************************************)
(* Insurance fraud-ring analysis: the synthetic graph generator            *)
(* (src/data_generator.py, FraudDataGenerator) and the detection engine    *)
(* (src/fraud_detection.py, FraudDetector) over one property graph.        *)
(*                                                                         *)
(* The graph store is modelled as the pair (nodes, edges):                 *)
(*   nodes  a sequence of property records; a node's position is its       *)
(*          internal id, id(n) of the queries (creation order);            *)
(*   edges  a sequence of typed, directed relationships between positions. *)
(* A property the store does not hold (NULL) is "null" for a string-valued *)
(* property and {} for a number-valued one; a number n is held as {n}.     *)
(* Display names, ssn, phone, licence numbers and dates are left out: no   *)
(* query of either class reads them in a WHERE.                            *)
(***************************************************************************)
EXTENDS Integers, Sequences, FiniteSets, TLC

VARIABLES
    nodes,                  \* the store's nodes
    edges,                  \* the store's relationships
    claim_counter,          \* FraudDataGenerator.claim_counter
    person_counter,         \* FraudDataGenerator.person_counter
    provider_counter,       \* FraudDataGenerator.provider_counter
    attorney_counter,       \* FraudDataGenerator.attorney_counter
    bodyshop_counter,       \* FraudDataGenerator.bodyshop_counter
    adjuster_counter,       \* FraudDataGenerator.adjuster_counter
    adjuster_pool,          \* FraudDataGenerator.adjuster_pool
    medical_provider_pool,  \* FraudDataGenerator.medical_provider_pool
    attorney_pool,          \* FraudDataGenerator.attorney_pool
    bodyshop_pool,          \* FraudDataGenerator.bodyshop_pool
    generation_stats,       \* FraudDataGenerator.generation_stats
    created,                \* history: labels and id of every node this generator created
    results,                \* what the last detection call returned
    cleared,                \* the three counts clear_previous_detections printed last
    last_op,                \* the operation that completed last, with its arguments
    repeated,               \* history: the last operation repeated the call before it
    error,                  \* the exception the last operation raised, or "none"
    ops                     \* number of operations completed in this behaviour

genVars == <<claim_counter, person_counter, provider_counter, attorney_counter,
             bodyshop_counter, adjuster_counter, adjuster_pool,
             medical_provider_pool, attorney_pool, bodyshop_pool,
             generation_stats, created>>
detVars == <<results, cleared>>
vars == <<nodes, edges, genVars, detVars, last_op, repeated, error, ops>>

(***************************************************************************)
(* Generic helpers                                                         *)
(***************************************************************************)
Min(a, b) == IF a <= b THEN a ELSE b
Max(a, b) == IF a >= b THEN a ELSE b

Range(s) == {s[i] : i \in DOMAIN s}

Indices(s) == [i \in 1..Len(s) |-> i]

RECURSIVE SumSeq(_)
SumSeq(s) == IF s = <<>> THEN 0 ELSE Head(s) + SumSeq(Tail(s))

\* The elements of a set of integers, as an increasing sequence.
RECURSIVE SetToSeq(_)
SetToSeq(S) ==
    IF S = {} THEN <<>>
    ELSE LET m == CHOOSE x \in S : \A y \in S : x <= y
         IN  <<m>> \o SetToSeq(S \ {m})

\* x held as a number-valued property; {} is NULL.
Some(x) == {x}
ValueOf(p) == CHOOSE x \in p : TRUE

(***************************************************************************)
(* Identifiers.  An id string such as "MED_IMP_T1_00002_00017" is held as  *)
(* the tuple of its literal prefix and its formatted numeric fields, each  *)
(* field the sequence of decimal digits "{n:05d}" prints.  Two id strings  *)
(* are equal exactly when their tuples are.                                *)
(***************************************************************************)
IdWidth == 5

RECURSIVE Digits(_)
Digits(n) == IF n < 10 THEN <<n>> ELSE Append(Digits(n \div 10), n % 10)

\* "{n:05d}": at least IdWidth digits, zero-padded on the left.
Pad5(n) ==
    LET d == Digits(n)
    IN  IF Len(d) >= IdWidth THEN d
        ELSE [i \in 1..(IdWidth - Len(d)) |-> 0] \o d

\* f"PFX_{n:05d}"
Id1(prefix, n) == <<prefix, Pad5(n)>>
\* f"PFX_{i:05d}_{n:05d}"
Id2(prefix, i, n) == <<prefix, Pad5(i), Pad5(n)>>

(***************************************************************************)
(* Nodes and relationships                                                 *)
(***************************************************************************)
\* A freshly created node: the properties a CREATE of the generator sets.
\* origin is bookkeeping, not a stored property: the builder, tier and loop
\* index of the pattern instance the node was created for (<<>> elsewhere).
NewNode(labels, id, is_fraud, fraud_type, claim_type, amount, employee_id) ==
    [ labels |-> labels, id |-> id, is_fraud |-> is_fraud,
      fraud_type |-> fraud_type, claim_type |-> claim_type,
      claim_amount |-> amount, employee_id |-> employee_id,
      suspicious |-> "null", suspicion_type |-> "null",
      suspicion_score |-> {}, degree_centrality |-> {}, origin |-> <<>> ]

NewEdge(type, src, dst) ==
    [ type |-> type, src |-> src, dst |-> dst, shared_claims |-> {} ]

Graph == [ nodes |-> nodes, edges |-> edges ]

EmptyGraph == [ nodes |-> <<>>, edges |-> <<>> ]

\* Faulty variant: no filter on is_fraud
AnyNode(n) == TRUE

\* Faulty variant: a node already marked suspicious is excluded as well
NotFraudNorSuspicious(n) == n.is_fraud \in {"null", "false"} /\ n.suspicious # "true"

\* (x.is_fraud IS NULL OR x.is_fraud = false)
NotFraud(n) == n.is_fraud \in {"null", "false"}

\* MATCH (x:L1:L2 {id: $id}) : positions of the nodes carrying the labels and the id
MatchById(g, labels, id) ==
    { i \in DOMAIN g.nodes : labels \subseteq g.nodes[i].labels /\ g.nodes[i].id = id }

\* positions of the relationships (c:Claim)-[:type]->(x) with c a Claim whose is_fraud = false
ClaimEdges(g, type) ==
    SelectSeq(Indices(g.edges),
              LAMBDA k : /\ g.edges[k].type = type
                         /\ "Claim" \in g.nodes[g.edges[k].src].labels
                         /\ g.nodes[g.edges[k].src].is_fraud = "false")

\* Faulty variant: a node that is already suspicious keeps what it has
SetSuspicionOnce(ns, S, type, score) ==
    [ i \in DOMAIN ns |->
        IF i \in S /\ ns[i].suspicious # "true"
        THEN [ ns[i] EXCEPT !.suspicious = "true", !.suspicion_type = type,
                            !.suspicion_score = Some(score) ]
        ELSE ns[i] ]

\* SET x.suspicious = true, x.suspicion_type = $type, x.suspicion_score = $score  on the nodes in S
SetSuspicion(ns, S, type, score) ==
    [ i \in DOMAIN ns |->
        IF i \in S
        THEN [ ns[i] EXCEPT !.suspicious = "true", !.suspicion_type = type,
                            !.suspicion_score = Some(score) ]
        ELSE ns[i] ]

\* toInteger($score * 0.8): the product of an integer score in 0..100 and the
\* double 0.8, truncated; the double product is never below 4*score/5.
ClaimScore(score) == (4 * score) \div 5

(***************************************************************************)
(* FraudDetector.clear_previous_detections                                 *)
(***************************************************************************)
\* Faulty variant: the first statement removes nothing.
ClearFlaggedNothing(ns) == ns

\* Faulty variant: the flags of the Claim nodes are left in place
ClearFlaggedEntities(ns) ==
    [ i \in DOMAIN ns |->
        IF ns[i].suspicious = "true" /\ "Claim" \notin ns[i].labels
        THEN [ ns[i] EXCEPT !.suspicious = "null", !.suspicion_type = "null",
                            !.suspicion_score = {} ]
        ELSE ns[i] ]

\* MATCH (n) WHERE n.suspicious = true REMOVE n.suspicious, n.suspicion_type, n.suspicion_score
ClearFlagged(ns) ==
    [ i \in DOMAIN ns |->
        IF ns[i].suspicious = "true"
        THEN [ ns[i] EXCEPT !.suspicious = "null", !.suspicion_type = "null",
                            !.suspicion_score = {} ]
        ELSE ns[i] ]

\* Faulty variant: REMOVE n.degree_centrality, n.claim_type
ClearCentralityAndType(ns) ==
    [ i \in DOMAIN ns |-> [ ns[i] EXCEPT !.degree_centrality = {}, !.claim_type = "null" ] ]

\* MATCH (n) WHERE n.degree_centrality IS NOT NULL REMOVE n.degree_centrality
ClearCentrality(ns) ==
    [ i \in DOMAIN ns |-> [ ns[i] EXCEPT !.degree_centrality = {} ] ]

\* Faulty variant: the relationships are left in place
ClearSuspiciousRelsNothing(es) == es

\* MATCH ()-[r:SUSPICIOUS_RELATIONSHIP]->() DELETE r
ClearSuspiciousRels(es) ==
    SelectSeq(es, LAMBDA e : e.type # "SUSPICIOUS_RELATIONSHIP")

\* The graph after the three statements, and the three counts they return.
ClearPreviousDetections(g) ==
    [ g |-> [ nodes |-> ClearCentrality(ClearFlagged(g.nodes)),
              edges |-> ClearSuspiciousRels(g.edges) ],
      counts |->
        [ flagged    |-> Cardinality({ i \in DOMAIN g.nodes : g.nodes[i].suspicious = "true" }),
          centrality |-> Cardinality({ i \in DOMAIN g.nodes : g.nodes[i].degree_centrality # {} }),
          rels       |-> Cardinality({ k \in DOMAIN g.edges :
                                          g.edges[k].type = "SUSPICIOUS_RELATIONSHIP" }) ] ]

(***************************************************************************)
(* FraudDetector.detect_medical_mills                                      *)
(***************************************************************************)
DefaultMinClaims == 5
DefaultMinAvgAmount == 15000
ScoreCap == 100
MillClaimWeight == 8

\* round(x, 2) of the quotient num/den, in hundredths (ties to the even hundredth).
RoundCents(num, den) ==
    LET q == (100 * num) \div den
        r == (100 * num) % den
    IN  IF 2 * r > den \/ (2 * r = den /\ q % 2 = 1) THEN q + 1 ELSE q

\* Faulty variant: the list of findings kept from the call before.
MillsKept == results.medical_mills

\* mills = []
MillsInit == <<>>

\* rows of MATCH (c:Claim)-[:TREATED_AT]->(m) WHERE c.is_fraud = false, for one provider m
MillRows(g, m) ==
    SelectSeq(ClaimEdges(g, "TREATED_AT"), LAMBDA k : g.edges[k].dst = m)

\* Faulty variant: WHERE claim_count > $min_claims
MillKeptAbove(r, min_claims, min_avg_amount) ==
    /\ r.claim_count >= 1
    /\ r.claim_count > min_claims
    /\ r.total > min_avg_amount * r.claim_count

\* a provider's group of rows is kept:
\* WHERE claim_count >= $min_claims ... WHERE avg_amount > $min_avg_amount
MillKept(r, min_claims, min_avg_amount) ==
    /\ r.claim_count >= 1
    /\ r.claim_count >= min_claims
    /\ r.total > min_avg_amount * r.claim_count

\* The grouped, filtered and ordered rows of the query.
MillQuery(g, min_claims, min_avg_amount) ==
    LET providers ==
            SelectSeq(Indices(g.nodes),
                LAMBDA m : /\ "MedicalProvider" \in g.nodes[m].labels
                           /\ NotFraud(g.nodes[m]))
        Row(m) ==
            LET rows == MillRows(g, m)
            IN  [ m |-> m,
                  claim_count |-> Len(rows),
                  total |-> SumSeq([ j \in 1..Len(rows) |->
                                       ValueOf(g.nodes[g.edges[rows[j]].src].claim_amount) ]),
                  claim_ids |-> [ j \in 1..Len(rows) |-> g.nodes[g.edges[rows[j]].src].id ] ]
        all == [ j \in 1..Len(providers) |-> Row(providers[j]) ]
        kept == SelectSeq(all, LAMBDA r : MillKept(r, min_claims, min_avg_amount))
    IN  \* ORDER BY claim_count DESC, avg_amount DESC (ties in store order)
        SortSeq(kept,
            LAMBDA a, b :
                \/ a.claim_count > b.claim_count
                \/ /\ a.claim_count = b.claim_count
                   /\ a.total * b.claim_count > b.total * a.claim_count
                \/ /\ a.claim_count = b.claim_count
                   /\ a.total * b.claim_count = b.total * a.claim_count
                   /\ a.m < b.m)

\* min(100, claim_count * 8 + int(avg_amount / 1000))
MillScore(claim_count, total) ==
    Min(ScoreCap, claim_count * MillClaimWeight + (total \div (claim_count * 1000)))

MillFindings(g, min_claims, min_avg_amount) ==
    LET Records(q) ==
        [ j \in 1..Len(q) |->
            [ provider_id |-> g.nodes[q[j].m].id,
              claim_count |-> q[j].claim_count,
              avg_amount |-> RoundCents(q[j].total, q[j].claim_count),
              claim_ids |-> q[j].claim_ids,
              fraud_type |-> "Medical Mill",
              suspicion_score |-> MillScore(q[j].claim_count, q[j].total) ] ]
    IN  MillsInit \o Records(MillQuery(g, min_claims, min_avg_amount))

\* MATCH (m:MedicalProvider {id: $provider_id}) WHERE m.is_fraud IS NULL OR m.is_fraud = false
MillProvidersToFlag(g, provider_id) ==
    { i \in MatchById(g, {"MedicalProvider"}, provider_id) : NotFraud(g.nodes[i]) }

\* Faulty variant: the claims of the provider matched without WHERE c.is_fraud = false.
MillClaimsToFlagUnguarded(g, ms) ==
    { g.edges[k].src : k \in
        { k \in DOMAIN g.edges : /\ g.edges[k].type = "TREATED_AT"
                                 /\ g.edges[k].dst \in ms
                                 /\ "Claim" \in g.nodes[g.edges[k].src].labels } }

\* MATCH (c:Claim)-[:TREATED_AT]->(m) WHERE c.is_fraud = false
MillClaimsToFlag(g, ms) ==
    { g.edges[k].src : k \in
        { k \in DOMAIN g.edges : /\ g.edges[k].type = "TREATED_AT"
                                 /\ g.edges[k].dst \in ms
                                 /\ "Claim" \in g.nodes[g.edges[k].src].labels
                                 /\ g.nodes[g.edges[k].src].is_fraud = "false" } }

FlagMill(g, mill) ==
    LET ms == MillProvidersToFlag(g, mill.provider_id)
        n1 == SetSuspicion(g.nodes, ms, "Medical Mill", mill.suspicion_score)
        g1 == [ g EXCEPT !.nodes = n1 ]
        cs == MillClaimsToFlag(g1, ms)
    IN  [ g1 EXCEPT !.nodes =
            SetSuspicion(n1, cs, "Medical Mill", ClaimScore(mill.suspicion_score)) ]

RECURSIVE FlagMills(_, _)
FlagMills(g, mills) ==
    IF mills = <<>> THEN g ELSE FlagMills(FlagMill(g, Head(mills)), Tail(mills))

DetectMedicalMills(g, min_claims, min_avg_amount) ==
    LET Flagged(mills) == [ g |-> FlagMills(g, mills), findings |-> mills ]
    IN  Flagged(MillFindings(g, min_claims, min_avg_amount))

(***************************************************************************)
(* The two pair detectors share the shape of their query and of their      *)
(* flagging statement; PairQuery and FlagPair take the relationship types  *)
(* and labels of detect_bodyshop_kickbacks or detect_adjuster_collusion.   *)
(***************************************************************************)
\* MATCH (c:Claim)-[:t1]->(a:L1) MATCH (c)-[:t2]->(b:L2)
\* WHERE c.is_fraud = false AND a, b not fraud
\* WITH a, b, count(c) as shared_claims, collect(c.id) as claim_ids
\* WHERE shared_claims >= $min_shared_claims ... ORDER BY shared_claims DESC
\* Faulty variant: WHERE shared_claims > $min_shared_claims
PairKeptAbove(r, min_shared_claims) == r.shared_claims > min_shared_claims

\* WHERE shared_claims >= $min_shared_claims
PairKept(r, min_shared_claims) == r.shared_claims >= min_shared_claims

PairQuery(g, t1, l1, t2, l2, min_shared_claims) ==
    LET e1 == SelectSeq(ClaimEdges(g, t1),
                  LAMBDA k : /\ l1 \subseteq g.nodes[g.edges[k].dst].labels
                             /\ NotFraud(g.nodes[g.edges[k].dst]))
        e2 == SelectSeq(ClaimEdges(g, t2),
                  LAMBDA k : /\ l2 \subseteq g.nodes[g.edges[k].dst].labels
                             /\ NotFraud(g.nodes[g.edges[k].dst]))
        \* one row per pair of relationships leaving the same claim
        RowsOf(a, b) ==
            { <<k1, k2>> \in Range(e1) \X Range(e2) :
                /\ g.edges[k1].src = g.edges[k2].src
                /\ g.edges[k1].dst = a
                /\ g.edges[k2].dst = b }
        pairs == { <<g.edges[k1].dst, g.edges[k2].dst>> : <<k1, k2>> \in
                     { kk \in Range(e1) \X Range(e2) :
                         g.edges[kk[1]].src = g.edges[kk[2]].src } }
        Row(ab) ==
            LET rows == RowsOf(ab[1], ab[2])
                firsts == SetToSeq({ 1000 * r[1] + r[2] : r \in rows })
            IN  [ a |-> ab[1], b |-> ab[2],
                  shared_claims |-> Cardinality(rows),
                  claim_ids |-> [ j \in 1..Len(firsts) |->
                                    g.nodes[g.edges[firsts[j] \div 1000].src].id ] ]
        order == SetToSeq({ 1000 * ab[1] + ab[2] : ab \in pairs })
        all == [ j \in 1..Len(order) |-> Row(<<order[j] \div 1000, order[j] % 1000>>) ]
        kept == SelectSeq(all, LAMBDA r : PairKept(r, min_shared_claims))
    IN  SortSeq(kept,
            LAMBDA x, y :
                \/ x.shared_claims > y.shared_claims
                \/ /\ x.shared_claims = y.shared_claims
                   /\ (x.a < y.a \/ (x.a = y.a /\ x.b < y.b)))

\* MERGE (a)-[r:SUSPICIOUS_RELATIONSHIP]->(b) SET r.shared_claims = $shared_claims
\* for every matched pair (a, b): created where none exists, updated where one does.
MergeSuspiciousRel(es, as, bs, shared_claims) ==
    LET updated ==
            [ k \in DOMAIN es |->
                IF /\ es[k].type = "SUSPICIOUS_RELATIONSHIP"
                   /\ es[k].src \in as /\ es[k].dst \in bs
                THEN [ es[k] EXCEPT !.shared_claims = Some(shared_claims) ]
                ELSE es[k] ]
        missing ==
            SetToSeq({ 1000 * a + b : <<a, b>> \in
                { ab \in as \X bs :
                    ~ \E k \in DOMAIN es :
                        /\ es[k].type = "SUSPICIOUS_RELATIONSHIP"
                        /\ es[k].src = ab[1] /\ es[k].dst = ab[2] } })
    IN  updated \o
        [ j \in 1..Len(missing) |->
            [ NewEdge("SUSPICIOUS_RELATIONSHIP", missing[j] \div 1000, missing[j] % 1000)
                EXCEPT !.shared_claims = Some(shared_claims) ] ]

\* The flagging statement of a pair detector for one finding.
FlagPair(g, t1, l1, a_id, t2, l2, b_id, type, score, shared_claims) ==
    LET as == { i \in MatchById(g, l1, a_id) : NotFraud(g.nodes[i]) }
        bs == { i \in MatchById(g, l2, b_id) : NotFraud(g.nodes[i]) }
    IN  IF as = {} \/ bs = {} THEN g
        ELSE
        LET n1 == SetSuspicion(g.nodes, as \cup bs, type, score)
            es == MergeSuspiciousRel(g.edges, as, bs, shared_claims)
            \* MATCH (c:Claim)-[:t1]->(a) MATCH (c)-[:t2]->(b) WHERE c.is_fraud = false
            cs == { c \in DOMAIN g.nodes :
                      /\ "Claim" \in g.nodes[c].labels
                      /\ g.nodes[c].is_fraud = "false"
                      /\ \E k \in DOMAIN g.edges :
                            g.edges[k].type = t1 /\ g.edges[k].src = c /\ g.edges[k].dst \in as
                      /\ \E k \in DOMAIN g.edges :
                            g.edges[k].type = t2 /\ g.edges[k].src = c /\ g.edges[k].dst \in bs }
        IN  [ nodes |-> SetSuspicion(n1, cs, type, ClaimScore(score)), edges |-> es ]

(***************************************************************************)
(* FraudDetector.detect_bodyshop_kickbacks                                 *)
(***************************************************************************)
DefaultMinSharedClaims == 3
KickbackWeight == 15

\* min(100, shared_claims * 15)
KickbackScore(shared_claims) == Min(ScoreCap, shared_claims * KickbackWeight)

KickbackFindings(g, min_shared_claims) ==
    LET Records(q) ==
        [ j \in 1..Len(q) |->
            [ attorney_id |-> g.nodes[q[j].a].id,
              bodyshop_id |-> g.nodes[q[j].b].id,
              shared_claims |-> q[j].shared_claims,
              claim_ids |-> q[j].claim_ids,
              fraud_type |-> "Body Shop Kickback",
              suspicion_score |-> KickbackScore(q[j].shared_claims) ] ]
    IN  Records(PairQuery(g, "REPRESENTED_BY", {"Attorney"}, "REPAIRED_AT", {"BodyShop"},
                          min_shared_claims))

RECURSIVE FlagKickbacks(_, _)
FlagKickbacks(g, kbs) ==
    IF kbs = <<>> THEN g
    ELSE FlagKickbacks(
            FlagPair(g, "REPRESENTED_BY", {"Attorney"}, Head(kbs).attorney_id,
                        "REPAIRED_AT", {"BodyShop"}, Head(kbs).bodyshop_id,
                        "Kickback Scheme", Head(kbs).suspicion_score,
                        Head(kbs).shared_claims),
            Tail(kbs))

DetectBodyshopKickbacks(g, min_shared_claims) ==
    LET Flagged(kbs) == [ g |-> FlagKickbacks(g, kbs), findings |-> kbs ]
    IN  Flagged(KickbackFindings(g, min_shared_claims))

(***************************************************************************)
(* FraudDetector.detect_adjuster_collusion                                 *)
(***************************************************************************)
DefaultMinAdjusterCollusion == 4
CollusionWeight == 12

\* Faulty variant: shared_claims * 12, without the cap
CollusionScoreUncapped(shared_claims) == shared_claims * CollusionWeight

\* min(100, shared_claims * 12)
CollusionScore(shared_claims) == Min(ScoreCap, shared_claims * CollusionWeight)

CollusionFindings(g, min_shared_claims) ==
    LET Records(q) ==
        [ j \in 1..Len(q) |->
            [ adjuster_id |-> g.nodes[q[j].a].id,
              provider_id |-> g.nodes[q[j].b].id,
              shared_claims |-> q[j].shared_claims,
              claim_ids |-> q[j].claim_ids,
              fraud_type |-> "Adjuster-Provider Collusion",
              suspicion_score |-> CollusionScore(q[j].shared_claims) ] ]
    IN  Records(PairQuery(g, "HANDLED_BY", {"Person", "Adjuster"},
                             "TREATED_AT", {"MedicalProvider"}, min_shared_claims))

RECURSIVE FlagCollusions(_, _)
FlagCollusions(g, cols) ==
    IF cols = <<>> THEN g
    ELSE FlagCollusions(
            FlagPair(g, "HANDLED_BY", {"Person", "Adjuster"}, Head(cols).adjuster_id,
                        "TREATED_AT", {"MedicalProvider"}, Head(cols).provider_id,
                        "Adjuster-Provider Collusion", Head(cols).suspicion_score,
                        Head(cols).shared_claims),
            Tail(cols))

DetectAdjusterCollusion(g, min_shared_claims) ==
    LET Flagged(cols) == [ g |-> FlagCollusions(g, cols), findings |-> cols ]
    IN  Flagged(CollusionFindings(g, min_shared_claims))

(***************************************************************************)
(* FraudDetector.detect_staged_accidents                                   *)
(***************************************************************************)
DefaultMinStagedClaims == 2
StagedLimit == 50
StagedWeight == 25
SeenPairsInit == {}

\* collect(DISTINCT c) for p: the non-fraud Auto claims p filed or witnessed
AutoClaimsOf(g, p) ==
    { c \in { g.edges[k].src : k \in { k \in DOMAIN g.edges :
                                        /\ g.edges[k].type \in {"FILED_BY", "WITNESSED_BY"}
                                        /\ g.edges[k].dst = p } } :
        /\ "Claim" \in g.nodes[c].labels
        /\ g.nodes[c].is_fraud = "false"
        /\ g.nodes[c].claim_type = "Auto" }

StagedPersons(g) ==
    { p \in DOMAIN g.nodes : "Person" \in g.nodes[p].labels /\ NotFraud(g.nodes[p]) }

\* the nodes with a FILED_BY or WITNESSED_BY relationship to other
InvolvedWith(g, other) ==
    { g.edges[k].src : k \in { k \in DOMAIN g.edges :
                                /\ g.edges[k].type \in {"FILED_BY", "WITNESSED_BY"}
                                /\ g.edges[k].dst = other } }

\* the (claim1, claim2) of the rows grouped under (p, other): both among the
\* claims collected for p, id(claim1) < id(claim2), both linked to other
StagedClaimPairs(claims, linked) ==
    { cc \in (claims \cap linked) \X (claims \cap linked) : cc[1] < cc[2] }

\* size(collect(DISTINCT claim1.id) + collect(DISTINCT claim2.id)) over the rows of one group
StagedSharedCount(g, claim_pairs) ==
    Cardinality({ g.nodes[cc[1]].id : cc \in claim_pairs })
  + Cardinality({ g.nodes[cc[2]].id : cc \in claim_pairs })

\* The records the query returns: ordered by shared_claims DESC, at most StagedLimit.
StagedQuery(g, min_shared_claims) ==
    LET claims == [ p \in StagedPersons(g) |-> AutoClaimsOf(g, p) ]
        linked == [ p \in StagedPersons(g) |-> InvolvedWith(g, p) ]
        ps == { p \in StagedPersons(g) : Cardinality(claims[p]) >= min_shared_claims }
        rows == [ x \in ps \X StagedPersons(g) |->
                    StagedClaimPairs(claims[x[1]], linked[x[2]]) ]
        po == { x \in ps \X StagedPersons(g) :
                  /\ g.nodes[x[1]].id # g.nodes[x[2]].id
                  /\ rows[x] # {}
                  /\ StagedSharedCount(g, rows[x]) >= min_shared_claims }
        order == SetToSeq({ 1000 * x[1] + x[2] : x \in po })
        all == [ j \in 1..Len(order) |->
                  LET x == << order[j] \div 1000, order[j] % 1000 >>
                  IN  [ p |-> x[1], other |-> x[2],
                        shared_claims |-> StagedSharedCount(g, rows[x]),
                        claim_ids |->
                            { g.nodes[cc[1]].id : cc \in rows[x] } \cup
                            { g.nodes[cc[2]].id : cc \in rows[x] } ] ]
        sorted == SortSeq(all,
                    LAMBDA x, y :
                        \/ x.shared_claims > y.shared_claims
                        \/ /\ x.shared_claims = y.shared_claims
                           /\ (x.p < y.p \/ (x.p = y.p /\ x.other < y.other)))
    IN  SubSeq(sorted, 1, Min(StagedLimit, Len(sorted)))

\* min(100, shared_claims * 25)
StagedScore(shared_claims) == Min(ScoreCap, shared_claims * StagedWeight)

\* for record in result: keep the first record of every unordered pair of ids
RECURSIVE StagedDedupe(_, _, _)
StagedDedupe(g, rows, seen_pairs) ==
    IF rows = <<>> THEN <<>>
    ELSE LET r == Head(rows)
             pair_key == { g.nodes[r.p].id, g.nodes[r.other].id }
         IN  IF pair_key \in seen_pairs
             THEN StagedDedupe(g, Tail(rows), seen_pairs)
             ELSE << [ person1_id |-> g.nodes[r.p].id,
                       person2_id |-> g.nodes[r.other].id,
                       shared_claims |-> r.shared_claims,
                       claim_ids |-> r.claim_ids,
                       fraud_type |-> "Staged Accident",
                       suspicion_score |-> StagedScore(r.shared_claims) ] >>
                  \o StagedDedupe(g, Tail(rows), seen_pairs \cup {pair_key})

StagedFindings(g, min_shared_claims) ==
    StagedDedupe(g, StagedQuery(g, min_shared_claims), SeenPairsInit)

\* MATCH (p:Person {id: $person_id}) WHERE p.is_fraud IS NULL OR p.is_fraud = false
StagedPersonsToFlag(g, person_id) ==
    { i \in MatchById(g, {"Person"}, person_id) : NotFraud(g.nodes[i]) }

\* MATCH (c:Claim {id: $claim_id}) WHERE c.is_fraud = false
StagedClaimsToFlag(g, claim_ids) ==
    { i \in DOMAIN g.nodes :
        /\ "Claim" \in g.nodes[i].labels
        /\ g.nodes[i].id \in claim_ids
        /\ g.nodes[i].is_fraud = "false" }

\* Faulty variant: every listed claim is flagged again
ListedClaims(claim_ids, claims_flagged) == claim_ids

\* for claim_id in accident['claim_ids']: if claim_id not in claims_flagged
UnflaggedClaims(claim_ids, claims_flagged) == claim_ids \ claims_flagged

\* The flagging loop: persons take the score of the last finding naming them,
\* claims the score of the first finding listing them (claims_flagged).
RECURSIVE FlagStaged(_, _, _)
FlagStaged(g, staged, claims_flagged) ==
    IF staged = <<>> THEN g
    ELSE LET acc == Head(staged)
             score == acc.suspicion_score
             n1 == SetSuspicion(g.nodes, StagedPersonsToFlag(g, acc.person1_id),
                                "Staged Accident", score)
             n2 == SetSuspicion(n1, StagedPersonsToFlag(g, acc.person2_id),
                                "Staged Accident", score)
             fresh == UnflaggedClaims(acc.claim_ids, claims_flagged)
             n3 == SetSuspicion(n2, StagedClaimsToFlag(g, fresh),
                                "Staged Accident", ClaimScore(score))
         IN  FlagStaged([ g EXCEPT !.nodes = n3 ], Tail(staged),
                        claims_flagged \cup acc.claim_ids)

DetectStagedAccidents(g, min_shared_claims) ==
    LET Flagged(staged) == [ g |-> FlagStaged(g, staged, {}), findings |-> staged ]
    IN  Flagged(StagedFindings(g, min_shared_claims))

(***************************************************************************)
(* FraudDetector.detect_phantom_passengers                                 *)
(***************************************************************************)
DefaultMinConnections == 3
PhantomWeight == 20

PhantomCandidates(g) ==
    { p \in DOMAIN g.nodes :
        /\ {"Person", "Claimant"} \subseteq g.nodes[p].labels
        /\ NotFraud(g.nodes[p]) }

\* collect(DISTINCT p) over (p)-[:KNOWS]-(connected), either direction
PhantomClaimants(g, connected) ==
    { p \in PhantomCandidates(g) :
        \E k \in DOMAIN g.edges :
            /\ g.edges[k].type = "KNOWS"
            /\ \/ g.edges[k].src = p /\ g.edges[k].dst = connected
               \/ g.edges[k].src = connected /\ g.edges[k].dst = p }

\* (connected)-[:FILED_BY]-(c:Claim) WHERE c.is_fraud = false : one row per relationship
PhantomClaimRows(g, connected) ==
    SelectSeq(Indices(g.edges),
        LAMBDA k :
            /\ g.edges[k].type = "FILED_BY"
            /\ \/ /\ g.edges[k].dst = connected
                  /\ "Claim" \in g.nodes[g.edges[k].src].labels
                  /\ g.nodes[g.edges[k].src].is_fraud = "false"
               \/ /\ g.edges[k].src = connected
                  /\ "Claim" \in g.nodes[g.edges[k].dst].labels
                  /\ g.nodes[g.edges[k].dst].is_fraud = "false")

PhantomQuery(g, min_connections) ==
    LET cs == { c \in PhantomCandidates(g) :
                  /\ Cardinality(PhantomClaimants(g, c)) >= 1
                  /\ Cardinality(PhantomClaimants(g, c)) >= min_connections
                  /\ Len(PhantomClaimRows(g, c)) > 0
                  /\ Len(PhantomClaimRows(g, c)) >= min_connections }
        order == SetToSeq(cs)
        all == [ j \in 1..Len(order) |->
                  [ connected |-> order[j],
                    connection_count |-> Cardinality(PhantomClaimants(g, order[j])),
                    claim_count |-> Len(PhantomClaimRows(g, order[j])) ] ]
    IN  SortSeq(all,
            LAMBDA x, y :
                \/ x.connection_count > y.connection_count
                \/ /\ x.connection_count = y.connection_count
                   /\ \/ x.claim_count > y.claim_count
                      \/ x.claim_count = y.claim_count /\ x.connected < y.connected)

\* min(100, connection_count * 20)
PhantomScore(connection_count) == Min(ScoreCap, connection_count * PhantomWeight)

PhantomFindings(g, min_connections) ==
    LET Records(q) ==
        [ j \in 1..Len(q) |->
            [ person_id |-> g.nodes[q[j].connected].id,
              connection_count |-> q[j].connection_count,
              claim_count |-> q[j].claim_count,
              claim_ids |-> [ i \in 1..q[j].claim_count |->
                    LET e == g.edges[PhantomClaimRows(g, q[j].connected)[i]]
                    IN  IF e.dst = q[j].connected THEN g.nodes[e.src].id
                        ELSE g.nodes[e.dst].id ],
              claimant_ids |-> { g.nodes[p].id : p \in PhantomClaimants(g, q[j].connected) },
              fraud_type |-> "Phantom Passenger",
              suspicion_score |-> PhantomScore(q[j].connection_count) ] ]
    IN  Records(PhantomQuery(g, min_connections))

FlagPhantom(g, phantom) ==
    LET ps == { i \in MatchById(g, {"Person"}, phantom.person_id) : NotFraud(g.nodes[i]) }
        \* MATCH (c:Claim)-[:FILED_BY]->(p) WHERE c.is_fraud = false
        cs == { c \in DOMAIN g.nodes :
                  /\ "Claim" \in g.nodes[c].labels
                  /\ g.nodes[c].is_fraud = "false"
                  /\ \E k \in DOMAIN g.edges :
                        /\ g.edges[k].type = "FILED_BY"
                        /\ g.edges[k].src = c /\ g.edges[k].dst \in ps }
        n1 == SetSuspicion(g.nodes, ps, "Phantom Passenger", phantom.suspicion_score)
    IN  [ g EXCEPT !.nodes = SetSuspicion(n1, cs, "Phantom Passenger",
                                          ClaimScore(phantom.suspicion_score)) ]

RECURSIVE FlagPhantoms(_, _)
FlagPhantoms(g, phantoms) ==
    IF phantoms = <<>> THEN g
    ELSE FlagPhantoms(FlagPhantom(g, Head(phantoms)), Tail(phantoms))

DetectPhantomPassengers(g, min_connections) ==
    LET Flagged(phantoms) == [ g |-> FlagPhantoms(g, phantoms), findings |-> phantoms ]
    IN  Flagged(PhantomFindings(g, min_connections))

(***************************************************************************)
(* FraudDetector.calculate_network_metrics and run_all_detections          *)
(***************************************************************************)
DegreeThreshold == 5

\* Faulty variant: COUNT { (n)-->() }
DegreeOutgoing(g, n) ==
    Cardinality({ k \in DOMAIN g.edges : g.edges[k].src = n })

\* COUNT { (n)--() }
Degree(g, n) ==
    Cardinality({ k \in DOMAIN g.edges : g.edges[k].src = n \/ g.edges[k].dst = n })

\* SET n.degree_centrality = degree on the non-fraud nodes of degree > 5
CalculateNetworkMetrics(g) ==
    [ g EXCEPT !.nodes =
        [ i \in DOMAIN g.nodes |->
            IF NotFraud(g.nodes[i]) /\ Degree(g, i) > DegreeThreshold
            THEN [ g.nodes[i] EXCEPT !.degree_centrality = Some(Degree(g, i)) ]
            ELSE g.nodes[i] ] ]

NoResults ==
    [ medical_mills |-> <<>>, kickbacks |-> <<>>, staged_accidents |-> <<>>,
      phantom_passengers |-> <<>>, adjuster_collusion |-> <<>> ]

DefaultThresholds ==
    [ min_claims |-> DefaultMinClaims,
      min_shared_claims |-> DefaultMinSharedClaims,
      min_staged_claims |-> DefaultMinStagedClaims,
      min_connections |-> DefaultMinConnections,
      min_adjuster_collusion |-> DefaultMinAdjusterCollusion ]

\* clear, then the five detectors in the order of the code, then the metrics.
RunAllDetections(g, th) ==
    LET Metrics(c, mm, kb, sa, pp, ac) ==
            [ g |-> CalculateNetworkMetrics(ac.g),
              counts |-> c.counts,
              results |->
                [ medical_mills |-> mm.findings, kickbacks |-> kb.findings,
                  staged_accidents |-> sa.findings, phantom_passengers |-> pp.findings,
                  adjuster_collusion |-> ac.findings ] ]
        Collusion(c, mm, kb, sa, pp) ==
            Metrics(c, mm, kb, sa, pp, DetectAdjusterCollusion(pp.g, th.min_adjuster_collusion))
        Phantoms(c, mm, kb, sa) ==
            Collusion(c, mm, kb, sa, DetectPhantomPassengers(sa.g, th.min_connections))
        Staged(c, mm, kb) ==
            Phantoms(c, mm, kb, DetectStagedAccidents(kb.g, th.min_staged_claims))
        Kickbacks(c, mm) ==
            Staged(c, mm, DetectBodyshopKickbacks(mm.g, th.min_shared_claims))
        Mills(c) ==
            Kickbacks(c, DetectMedicalMills(c.g, th.min_claims, DefaultMinAvgAmount))
    IN  Mills(ClearPreviousDetections(g))

(***************************************************************************)
(* The detection engine on a stored graph.                                 *)
(*                                                                         *)
(* FraudDetector reads whatever graph the store holds.  The input graphs   *)
(* follow the schema the queries read: seven entities (three claimants, an *)
(* adjuster, a medical provider, an attorney, a body shop), at most        *)
(* MaxClaims claims, each of one of the shapes below, and KNOWS edges      *)
(* towards the first claimant.  Entities carry is_fraud = true or no       *)
(* is_fraud; claims carry is_fraud = true or false.  No input node carries *)
(* a suspicion field: only the detectors write them.                       *)
(***************************************************************************)
MaxClaims == 4
LowThreshold == 2
MaxStagedThreshold == 4

PersonId(n) == Id1("P", n)
ClaimId(n) == Id1("CLM", n)
AdjusterId(n) == Id1("ADJ", n)
ProviderId(n) == Id1("MED", n)
AttorneyId(n) == Id1("ATT", n)
BodyShopId(n) == Id1("BS", n)

FraudMark(id, fraud) == IF id \in fraud THEN "true" ELSE "null"

InputEntities(fraud) ==
    << NewNode({"Person", "Claimant"}, PersonId(0), FraudMark(PersonId(0), fraud), "null", "null", {}, <<>>),
       NewNode({"Person", "Claimant"}, PersonId(1), FraudMark(PersonId(1), fraud), "null", "null", {}, <<>>),
       NewNode({"Person", "Claimant"}, PersonId(2), FraudMark(PersonId(2), fraud), "null", "null", {}, <<>>),
       NewNode({"Person", "Adjuster"}, AdjusterId(0), FraudMark(AdjusterId(0), fraud), "null", "null", {}, <<"EMP", Pad5(0)>>),
       NewNode({"MedicalProvider"}, ProviderId(0), FraudMark(ProviderId(0), fraud), "null", "null", {}, <<>>),
       NewNode({"Attorney"}, AttorneyId(0), FraudMark(AttorneyId(0), fraud), "null", "null", {}, <<>>),
       NewNode({"BodyShop"}, BodyShopId(0), FraudMark(BodyShopId(0), fraud), "null", "null", {}, <<>>) >>

\* Auto claims filed and witnessed among the three claimants
StagedShapes ==
    << [ claim_type |-> "Auto", is_fraud |-> "false", amount |-> 20000,
         links |-> << <<"FILED_BY", PersonId(0)>>, <<"WITNESSED_BY", PersonId(1)>>,
                      <<"HANDLED_BY", AdjusterId(0)>> >> ],
       [ claim_type |-> "Auto", is_fraud |-> "false", amount |-> 20000,
         links |-> << <<"FILED_BY", PersonId(0)>>, <<"WITNESSED_BY", PersonId(2)>>,
                      <<"HANDLED_BY", AdjusterId(0)>> >> ],
       [ claim_type |-> "Auto", is_fraud |-> "false", amount |-> 20000,
         links |-> << <<"FILED_BY", PersonId(0)>>, <<"WITNESSED_BY", PersonId(1)>>,
                      <<"WITNESSED_BY", PersonId(2)>>, <<"HANDLED_BY", AdjusterId(0)>> >> ],
       [ claim_type |-> "Auto", is_fraud |-> "true", amount |-> 20000,
         links |-> << <<"FILED_BY", PersonId(0)>>, <<"WITNESSED_BY", PersonId(1)>>,
                      <<"HANDLED_BY", AdjusterId(0)>> >> ] >>

\* Medical claims at the provider, Auto claims through the attorney and the body shop
ServiceShapes ==
    << [ claim_type |-> "Medical", is_fraud |-> "false", amount |-> 20000,
         links |-> << <<"FILED_BY", PersonId(0)>>, <<"TREATED_AT", ProviderId(0)>>,
                      <<"HANDLED_BY", AdjusterId(0)>> >> ],
       [ claim_type |-> "Medical", is_fraud |-> "true", amount |-> 20000,
         links |-> << <<"FILED_BY", PersonId(0)>>, <<"TREATED_AT", ProviderId(0)>>,
                      <<"HANDLED_BY", AdjusterId(0)>> >> ],
       [ claim_type |-> "Auto", is_fraud |-> "false", amount |-> 10000,
         links |-> << <<"FILED_BY", PersonId(2)>>, <<"REPRESENTED_BY", AttorneyId(0)>>,
                      <<"REPAIRED_AT", BodyShopId(0)>>, <<"HANDLED_BY", AdjusterId(0)>> >> ] >>

\* Auto claims filed by one claimant each
PhantomShapes ==
    << [ claim_type |-> "Auto", is_fraud |-> "false", amount |-> 10000,
         links |-> << <<"FILED_BY", PersonId(0)>>, <<"HANDLED_BY", AdjusterId(0)>> >> ],
       [ claim_type |-> "Auto", is_fraud |-> "true", amount |-> 10000,
         links |-> << <<"FILED_BY", PersonId(0)>>, <<"HANDLED_BY", AdjusterId(0)>> >> ],
       [ claim_type |-> "Auto", is_fraud |-> "false", amount |-> 10000,
         links |-> << <<"FILED_BY", PersonId(1)>>, <<"HANDLED_BY", AdjusterId(0)>> >> ] >>

\* the claims of one input: at most MaxClaims shapes, in the order of the list
ShapeLists(shapes) ==
    UNION { { [ j \in 1..n |-> shapes[s[j]] ] :
                s \in { t \in [1..n -> DOMAIN shapes] :
                          \A j \in 1..(n - 1) : t[j] <= t[j + 1] } } :
            n \in 0..MaxClaims }

RECURSIVE Flatten(_)
Flatten(ss) == IF ss = <<>> THEN <<>> ELSE Head(ss) \o Flatten(Tail(ss))

\* The graph holding the entities, the listed claims and the KNOWS edges.
BuildGraph(entities, claims, knows) ==
    LET ns == entities \o
              [ j \in 1..Len(claims) |->
                  NewNode({"Claim"}, ClaimId(j - 1), claims[j].is_fraud, "null",
                          claims[j].claim_type, Some(claims[j].amount), <<>>) ]
        g0 == [ nodes |-> ns, edges |-> <<>> ]
        At(labels, id) == CHOOSE i \in MatchById(g0, labels, id) : TRUE
        es == Flatten([ j \in 1..Len(claims) |->
                  [ l \in 1..Len(claims[j].links) |->
                      NewEdge(claims[j].links[l][1],
                              At({"Claim"}, ClaimId(j - 1)),
                              At({}, claims[j].links[l][2])) ] ])
        ks == [ l \in 1..Len(knows) |->
                  NewEdge("KNOWS", At({"Person"}, knows[l][1]), At({"Person"}, knows[l][2])) ]
    IN  [ nodes |-> ns, edges |-> es \o ks ]

InputGraph(fraud, claims, knows) == BuildGraph(InputEntities(fraud), claims, knows)

InputGraphs ==
    { InputGraph(fraud, claims, <<>>) :
        fraud \in { {}, {PersonId(2)} }, claims \in ShapeLists(StagedShapes) }
    \cup
    { InputGraph(fraud, claims, <<>>) :
        fraud \in { {}, {ProviderId(0), BodyShopId(0)} }, claims \in ShapeLists(ServiceShapes) }
    \cup
    { InputGraph(fraud, claims, knows) :
        fraud \in { {}, {PersonId(2)} }, claims \in ShapeLists(PhantomShapes),
        knows \in { << <<PersonId(1), PersonId(0)>>, <<PersonId(2), PersonId(0)>> >> } }

(***************************************************************************)
(* Inputs with two providers, two adjusters and two attorneys: Medical     *)
(* claims around the provider and amount thresholds, Auto claims through   *)
(* attorney and body shop                                                  *)
(***************************************************************************)
MaxDetectClaims == 5

DetectEntities(fraud) ==
    << NewNode({"Person", "Claimant"}, PersonId(0), "null", "null", "null", {}, <<>>),
       NewNode({"Person", "Adjuster"}, AdjusterId(0), FraudMark(AdjusterId(0), fraud), "null", "null", {}, <<"EMP", Pad5(0)>>),
       NewNode({"Person", "Adjuster"}, AdjusterId(1), FraudMark(AdjusterId(1), fraud), "null", "null", {}, <<"EMP", Pad5(1)>>),
       NewNode({"MedicalProvider"}, ProviderId(0), FraudMark(ProviderId(0), fraud), "null", "null", {}, <<>>),
       NewNode({"MedicalProvider"}, ProviderId(1), FraudMark(ProviderId(1), fraud), "null", "null", {}, <<>>),
       NewNode({"Attorney"}, AttorneyId(0), FraudMark(AttorneyId(0), fraud), "null", "null", {}, <<>>),
       NewNode({"Attorney"}, AttorneyId(1), FraudMark(AttorneyId(1), fraud), "null", "null", {}, <<>>),
       NewNode({"BodyShop"}, BodyShopId(0), FraudMark(BodyShopId(0), fraud), "null", "null", {}, <<>>) >>

MedicalShape(is_fraud, amount, provider, adjuster) ==
    [ claim_type |-> "Medical", is_fraud |-> is_fraud, amount |-> amount,
      links |-> << <<"FILED_BY", PersonId(0)>>, <<"TREATED_AT", ProviderId(provider)>>,
                   <<"HANDLED_BY", AdjusterId(adjuster)>> >> ]

MillShapes ==
    << MedicalShape("false", 10000, 0, 0), MedicalShape("false", 20000, 0, 0),
       MedicalShape("true", 20000, 0, 0), MedicalShape("false", 20000, 1, 0),
       MedicalShape("false", 20000, 0, 1) >>

ReferralShape(is_fraud, attorney) ==
    [ claim_type |-> "Auto", is_fraud |-> is_fraud, amount |-> 10000,
      links |-> << <<"FILED_BY", PersonId(0)>>, <<"REPRESENTED_BY", AttorneyId(attorney)>>,
                   <<"REPAIRED_AT", BodyShopId(0)>>, <<"HANDLED_BY", AdjusterId(0)>> >> ]

ReferralShapes ==
    << ReferralShape("false", 0), ReferralShape("true", 0), ReferralShape("false", 1),
       [ claim_type |-> "Auto", is_fraud |-> "false", amount |-> 10000,
         links |-> << <<"FILED_BY", PersonId(0)>>, <<"REPRESENTED_BY", AttorneyId(0)>>,
                      <<"HANDLED_BY", AdjusterId(0)>> >> ] >>

\* the claims of one input: at most max shapes, in the order of the list
ShapeListsUpTo(shapes, max) ==
    UNION { { [ j \in 1..n |-> shapes[s[j]] ] :
                s \in { t \in [1..n -> DOMAIN shapes] :
                          \A j \in 1..(n - 1) : t[j] <= t[j + 1] } } :
            n \in 0..max }

DetectGraphs ==
    { BuildGraph(DetectEntities(fraud), claims, <<>>) :
        fraud \in { {}, {ProviderId(1)}, {AdjusterId(1)} },
        claims \in ShapeListsUpTo(MillShapes, MaxDetectClaims) }
    \cup
    { BuildGraph(DetectEntities(fraud), claims, <<>>) :
        fraud \in { {}, {AttorneyId(1)} },
        claims \in ShapeListsUpTo(ReferralShapes, MaxDetectClaims) }

(***************************************************************************)
(* State after construction, and the operations of the detection engine    *)
(***************************************************************************)
MaxOps == 3

GenerationStatsInit ==
    [ legitimate_claims |-> 0,
      explicit_fraud |-> [ medical_mill |-> 0, kickback |-> 0, staged |-> 0,
                           phantom |-> 0, adjuster_collusion |-> 0 ],
      implicit_fraud |->
        [ t \in {"tier1", "tier2", "tier3"} |->
            [ medical_mill |-> 0, kickback |-> 0, staged |-> 0,
              phantom |-> 0, adjuster_collusion |-> 0 ] ],
      near_miss_legitimate |-> [ high_volume_providers |-> 0, repeat_referrals |-> 0,
                                 repeat_witnesses |-> 0 ] ]

\* FraudDataGenerator.__init__
GeneratorInit ==
    /\ claim_counter = 0
    /\ person_counter = 0
    /\ provider_counter = 0
    /\ attorney_counter = 0
    /\ bodyshop_counter = 0
    /\ adjuster_counter = 0
    /\ adjuster_pool = <<>>
    /\ medical_provider_pool = <<>>
    /\ attorney_pool = <<>>
    /\ bodyshop_pool = <<>>
    /\ generation_stats = GenerationStatsInit
    /\ created = <<>>

NoCounts == [ flagged |-> 0, centrality |-> 0, rels |-> 0 ]

DetectorInit ==
    /\ results = NoResults
    /\ cleared = NoCounts
    /\ last_op = [ name |-> "init", args |-> <<>> ]
    /\ repeated = FALSE
    /\ error = "none"
    /\ ops = 0

Init ==
    /\ \E g \in InputGraphs : nodes = g.nodes /\ edges = g.edges
    /\ GeneratorInit
    /\ DetectorInit

\* what every completed detection-engine operation records
Completed(name, args) ==
    /\ ops' = ops + 1
    /\ last_op' = [ name |-> name, args |-> args ]
    /\ repeated' = (last_op = [ name |-> name, args |-> args ])
    /\ error' = "none"
    /\ UNCHANGED genVars

ClearOp ==
    \E c \in { ClearPreviousDetections(Graph) } :
        /\ Completed("clear_previous_detections", <<>>)
        /\ nodes' = c.g.nodes
        /\ edges' = c.g.edges
        /\ cleared' = c.counts
        /\ UNCHANGED results

DetectMillsOp ==
    \E min_claims \in {LowThreshold, DefaultMinClaims} :
        \E d \in { DetectMedicalMills(Graph, min_claims, DefaultMinAvgAmount) } :
            /\ Completed("detect_medical_mills", <<min_claims>>)
            /\ nodes' = d.g.nodes
            /\ edges' = d.g.edges
            /\ results' = [ NoResults EXCEPT !.medical_mills = d.findings ]
            /\ UNCHANGED cleared

DetectKickbacksOp ==
    \E min_shared_claims \in {LowThreshold, DefaultMinSharedClaims} :
        \E d \in { DetectBodyshopKickbacks(Graph, min_shared_claims) } :
            /\ Completed("detect_bodyshop_kickbacks", <<min_shared_claims>>)
            /\ nodes' = d.g.nodes
            /\ edges' = d.g.edges
            /\ results' = [ NoResults EXCEPT !.kickbacks = d.findings ]
            /\ UNCHANGED cleared

DetectStagedOp ==
    \E min_shared_claims \in LowThreshold..MaxStagedThreshold :
        \E d \in { DetectStagedAccidents(Graph, min_shared_claims) } :
            /\ Completed("detect_staged_accidents", <<min_shared_claims>>)
            /\ nodes' = d.g.nodes
            /\ edges' = d.g.edges
            /\ results' = [ NoResults EXCEPT !.staged_accidents = d.findings ]
            /\ UNCHANGED cleared

DetectPhantomsOp ==
    \E min_connections \in {LowThreshold, DefaultMinConnections} :
        \E d \in { DetectPhantomPassengers(Graph, min_connections) } :
            /\ Completed("detect_phantom_passengers", <<min_connections>>)
            /\ nodes' = d.g.nodes
            /\ edges' = d.g.edges
            /\ results' = [ NoResults EXCEPT !.phantom_passengers = d.findings ]
            /\ UNCHANGED cleared

DetectCollusionOp ==
    \E min_shared_claims \in {LowThreshold, DefaultMinAdjusterCollusion} :
        \E d \in { DetectAdjusterCollusion(Graph, min_shared_claims) } :
            /\ Completed("detect_adjuster_collusion", <<min_shared_claims>>)
            /\ nodes' = d.g.nodes
            /\ edges' = d.g.edges
            /\ results' = [ NoResults EXCEPT !.adjuster_collusion = d.findings ]
            /\ UNCHANGED cleared

MetricsOp ==
    \E g \in { CalculateNetworkMetrics(Graph) } :
        /\ Completed("calculate_network_metrics", <<>>)
        /\ nodes' = g.nodes
        /\ edges' = g.edges
        /\ UNCHANGED <<results, cleared>>

\* the threshold combinations run_all_detections is called with
RunThresholds ==
    { DefaultThresholds,
      [ DefaultThresholds EXCEPT !.min_staged_claims = MaxStagedThreshold ],
      [ min_claims |-> LowThreshold, min_shared_claims |-> LowThreshold,
        min_staged_claims |-> LowThreshold, min_connections |-> LowThreshold,
        min_adjuster_collusion |-> LowThreshold ] }

ThresholdArgs(th) ==
    << th.min_claims, th.min_shared_claims, th.min_staged_claims,
       th.min_connections, th.min_adjuster_collusion >>

RunAllOp ==
    \E th \in RunThresholds :
        \E r \in { RunAllDetections(Graph, th) } :
            /\ Completed("run_all_detections", ThresholdArgs(th))
            /\ nodes' = r.g.nodes
            /\ edges' = r.g.edges
            /\ results' = r.results
            /\ cleared' = r.counts

\* at most MaxOps operations on one input graph
Next ==
    \/ ops < MaxOps /\ ClearOp
    \/ ops < MaxOps /\ DetectMillsOp
    \/ ops < MaxOps /\ DetectKickbacksOp
    \/ ops < MaxOps /\ DetectStagedOp
    \/ ops < MaxOps /\ DetectPhantomsOp
    \/ ops < MaxOps /\ DetectCollusionOp
    \/ ops < MaxOps /\ MetricsOp
    \/ ops < MaxOps /\ RunAllOp

Spec == Init /\ [][Next]_vars

\* one call of a provider or pair detector on a graph that carries no flag
InitDetect ==
    /\ \E g \in DetectGraphs : nodes = g.nodes /\ edges = g.edges
    /\ GeneratorInit
    /\ DetectorInit

Fresh == last_op.name = "init"

NextDetect ==
    \/ Fresh /\ DetectMillsOp
    \/ Fresh /\ DetectKickbacksOp
    \/ Fresh /\ DetectCollusionOp

SpecDetect == InitDetect /\ [][NextDetect]_vars

(***************************************************************************)
(* Inputs for the scores: two structures of the same kind with n and m     *)
(* clean claims (or n and m acquaintances), large enough to reach the cap  *)
(* of every score formula                                                  *)
(***************************************************************************)
MaxScoreClaims == 9
MaxKnown == 6
PhantomFiled == 3

ScoreEntities ==
    [ j \in 1..(MaxKnown + 2) |->
        NewNode({"Person", "Claimant"}, PersonId(j - 1), "null", "null", "null", {}, <<>>) ]
    \o Tail(DetectEntities({}))

Copies(shape, n) == [ j \in 1..n |-> shape ]

WitnessedShape(filer, witness) ==
    [ claim_type |-> "Auto", is_fraud |-> "false", amount |-> 20000,
      links |-> << <<"FILED_BY", PersonId(filer)>>, <<"WITNESSED_BY", PersonId(witness)>>,
                   <<"HANDLED_BY", AdjusterId(0)>> >> ]

FiledShape(filer) ==
    [ claim_type |-> "Auto", is_fraud |-> "false", amount |-> 10000,
      links |-> << <<"FILED_BY", PersonId(filer)>>, <<"HANDLED_BY", AdjusterId(0)>> >> ]

\* persons P2.. know P0 (n of them) and P1 (m of them)
Acquaintances(n, m) ==
    [ j \in 1..n |-> <<PersonId(j + 1), PersonId(0)>> ] \o
    [ j \in 1..m |-> <<PersonId(j + 1), PersonId(1)>> ]

ScoreAmounts == {20000, 95000}

ScoreGraphs ==
    { BuildGraph(ScoreEntities,
                 Copies(MedicalShape("false", a, 0, 0), n) \o
                 Copies(MedicalShape("false", b, 1, 1), m), <<>>) :
        n \in 0..MaxScoreClaims, m \in 0..MaxScoreClaims,
        a \in ScoreAmounts, b \in ScoreAmounts }
    \cup
    { BuildGraph(ScoreEntities,
                 Copies(ReferralShape("false", 0), n) \o
                 Copies(ReferralShape("false", 1), m), <<>>) :
        n \in 0..MaxScoreClaims, m \in 0..MaxScoreClaims }
    \cup
    { BuildGraph(ScoreEntities,
                 Copies(WitnessedShape(0, 1), n) \o Copies(WitnessedShape(2, 3), m), <<>>) :
        n \in 0..MaxScoreClaims, m \in 0..MaxScoreClaims }
    \cup
    { BuildGraph(ScoreEntities,
                 Copies(FiledShape(0), PhantomFiled) \o Copies(FiledShape(1), PhantomFiled),
                 Acquaintances(n, m)) :
        n \in 0..MaxKnown, m \in 0..MaxKnown }

\* one call of any detector on a graph that carries no flag
InitScore ==
    /\ \E g \in ScoreGraphs : nodes = g.nodes /\ edges = g.edges
    /\ GeneratorInit
    /\ DetectorInit

NextScore ==
    \/ Fresh /\ DetectMillsOp
    \/ Fresh /\ DetectKickbacksOp
    \/ Fresh /\ DetectStagedOp
    \/ Fresh /\ DetectPhantomsOp
    \/ Fresh /\ DetectCollusionOp

SpecScore == InitScore /\ [][NextScore]_vars

(***************************************************************************)
(* Inputs for the row limit of the staged-accident query: up to MaxCrowd   *)
(* persons who are all on the same Auto claims, the last one labelled      *)
(* fraud or not.  With eleven persons there are 55 pairs, more than the    *)
(* rows the query returns in whatever order it breaks ties.                *)
(***************************************************************************)
MaxCrowd == 11
MaxCrowdClaims == 3

CrowdEntities(n, fraud) ==
    [ j \in 1..n |->
        NewNode({"Person", "Claimant"}, PersonId(j - 1),
                IF j = n THEN fraud ELSE "null", "null", "null", {}, <<>>) ]
    \o << NewNode({"Person", "Adjuster"}, AdjusterId(0), "null", "null", "null", {},
                  <<"EMP", Pad5(0)>>) >>

\* an Auto claim filed by the first person and witnessed by the n - 1 others
CrowdShape(n) ==
    [ claim_type |-> "Auto", is_fraud |-> "false", amount |-> 20000,
      links |-> << <<"FILED_BY", PersonId(0)>> >> \o
                [ j \in 1..(n - 1) |-> <<"WITNESSED_BY", PersonId(j)>> ] \o
                << <<"HANDLED_BY", AdjusterId(0)>> >> ]

CrowdGraphs ==
    { BuildGraph(CrowdEntities(n, fraud), Copies(CrowdShape(n), k), <<>>) :
        n \in 2..MaxCrowd, k \in 1..MaxCrowdClaims, fraud \in {"null", "true"} }

InitCrowd ==
    /\ \E g \in CrowdGraphs : nodes = g.nodes /\ edges = g.edges
    /\ GeneratorInit
    /\ DetectorInit

NextCrowd == Fresh /\ DetectStagedOp

SpecCrowd == InitCrowd /\ [][NextCrowd]_vars

(***************************************************************************)
(* The generator.  An operation of FraudDataGenerator is a function from   *)
(* the instance and the store before the call to the instance and the      *)
(* store after it; error is the exception that aborted the call, "none"    *)
(* when it returned.  A random draw of the code is an argument d of the    *)
(* operator that makes it, taken by the calling action from a small set.   *)
(***************************************************************************)
GenState ==
    [ nodes |-> nodes, edges |-> edges,
      claim_counter |-> claim_counter, person_counter |-> person_counter,
      provider_counter |-> provider_counter, attorney_counter |-> attorney_counter,
      bodyshop_counter |-> bodyshop_counter, adjuster_counter |-> adjuster_counter,
      adjuster_pool |-> adjuster_pool, medical_provider_pool |-> medical_provider_pool,
      attorney_pool |-> attorney_pool, bodyshop_pool |-> bodyshop_pool,
      generation_stats |-> generation_stats, created |-> created, error |-> "none" ]

\* a counter that is never advanced
Stuck(n) == n

\* self.x_counter += 1
Incr(n) == n + 1

\* random.randint(lo, hi): the end of the range the draw d picks
RandInt(lo, hi, d) == IF d = "lo" THEN lo ELSE hi

\* round(random.uniform(*range), 2): the end of the range the draw d picks
Uniform(range, d) == IF d = "lo" THEN range[1] ELSE range[2]

\* random.choice(pool) for the claim numbered j, pool not empty
Choice(pool, d, j) ==
    pool[ IF d = "first" THEN 1
          ELSE IF d = "last" THEN Len(pool)
          ELSE (j % Len(pool)) + 1 ]

\* for i in range(n): s = Body(s, i), left at the first exception
RECURSIVE RepeatFrom(_, _, _, _)
RepeatFrom(Body(_, _), s, i, n) ==
    IF i >= n \/ s.error # "none" THEN s
    ELSE RepeatFrom(Body, Body(s, i), i + 1, n)

Repeat(Body(_, _), s, n) == RepeatFrom(Body, s, 0, n)

\* MATCH (x1:.. {id: ..}) MATCH (x2:.. {id: ..}) ...: one row of positions
\* for every combination of nodes the patterns find
RECURSIVE MatchRows(_, _)
MatchRows(g, matches) ==
    IF matches = <<>> THEN << <<>> >>
    ELSE LET n == Len(matches)
             front == MatchRows(g, SubSeq(matches, 1, n - 1))
             found == SetToSeq(MatchById(g, matches[n].labels, matches[n].id))
         IN  Flatten([ r \in 1..Len(front) |->
                         [ k \in 1..Len(found) |-> Append(front[r], found[k]) ] ])

Pattern(labels, id) == [ labels |-> labels, id |-> id ]

\* the ends of a created relationship: the k-th node the statement creates,
\* or the node its k-th MATCH found
New(k) == <<"new", k>>
Row(k) == <<"row", k>>
Link(type, src, dst) == [ type |-> type, src |-> src, dst |-> dst ]

\* the CREATE clauses of a statement, executed for one row
RunCreate(s, row, creates, links) ==
    LET base == Len(s.nodes)
        at(e) == IF e[1] = "new" THEN base + e[2] ELSE row[e[2]]
    IN  [ s EXCEPT
            !.nodes = @ \o creates,
            !.edges = @ \o [ k \in 1..Len(links) |->
                               NewEdge(links[k].type, at(links[k].src), at(links[k].dst)) ],
            !.created = @ \o [ k \in 1..Len(creates) |->
                                 [ labels |-> creates[k].labels, id |-> creates[k].id ] ] ]

RECURSIVE RunRows(_, _, _, _)
RunRows(s, rows, creates, links) ==
    IF rows = <<>> THEN s
    ELSE RunRows(RunCreate(s, Head(rows), creates, links), Tail(rows), creates, links)

\* session.run of a statement MATCH ... CREATE ...: nothing is created when a
\* MATCH finds no node
Statement(s, matches, creates, links) ==
    RunRows(s, MatchRows(s, matches), creates, links)

\* the nodes created since `before`, marked as the pattern instance `origin`
Tag(before, after, origin) ==
    [ after EXCEPT !.nodes =
        [ k \in 1..Len(after.nodes) |->
            IF k > Len(before.nodes) THEN [ after.nodes[k] EXCEPT !.origin = origin ]
            ELSE after.nodes[k] ] ]

Entity(labels, id) == NewNode(labels, id, "null", "null", "null", {}, <<>>)
ClaimNode(id, claim_type, amount) ==
    NewNode({"Claim"}, id, "false", "null", claim_type, Some(amount), <<>>)

\* FraudDataGenerator.clear_database: MATCH (n) DETACH DELETE n
ClearDatabase(s) == [ s EXCEPT !.nodes = <<>>, !.edges = <<>> ]

\* FraudDataGenerator.create_adjuster_pool
CreateAdjusterPool(s, num_adjusters) ==
    Repeat(LAMBDA t, i :
             LET adjuster_id == Id1("ADJ", t.adjuster_counter)
                 t1 == Statement(t, <<>>,
                           << NewNode({"Person", "Adjuster"}, adjuster_id, "null", "null",
                                      "null", {}, <<"EMP", Pad5(t.adjuster_counter)>>) >>,
                           <<>>)
             IN  [ t1 EXCEPT !.adjuster_pool = Append(@, adjuster_id),
                             !.adjuster_counter = Incr(@) ],
           s, num_adjusters)

(***************************************************************************)
(* Tiered implicit patterns: medical mill and body-shop kickback           *)
(***************************************************************************)
Tiers == <<"tier1", "tier2", "tier3">>
TierNo == [ tier1 |-> "1", tier2 |-> "2", tier3 |-> "3" ]
\* f"STEM_T{tier}" of an id f"STEM_T{tier}_{i:05d}_{n:05d}"
TierPrefix(stem, tier) == stem \o TierNo[tier]

\* with stats[tier][archetype] = count, unless the builder was aborted
TierDone(s, tier, archetype, count) ==
    IF s.error # "none" THEN s
    ELSE [ s EXCEPT !.generation_stats.implicit_fraud[tier][archetype] = count ]

\* FraudDataGenerator._create_implicit_medical_claim
CreateImplicitMedicalClaim(s, provider_id, amount_range, d) ==
    LET claim_id == Id1("CLM", s.claim_counter)
        claimant_id == Id1("P", s.person_counter)
        s1 == [ s EXCEPT !.claim_counter = Incr(@), !.person_counter = Incr(@) ]
    IN  IF s1.adjuster_pool = <<>> THEN [ s1 EXCEPT !.error = "IndexError" ]
        ELSE Statement(s1,
                 << Pattern({"MedicalProvider"}, provider_id),
                    Pattern({"Person", "Adjuster"},
                            Choice(s1.adjuster_pool, d.adj, s.claim_counter)) >>,
                 << ClaimNode(claim_id, "Medical", Uniform(amount_range, d.amount)),
                    Entity({"Person", "Claimant"}, claimant_id) >>,
                 << Link("FILED_BY", New(1), New(2)),
                    Link("TREATED_AT", New(1), Row(1)),
                    Link("HANDLED_BY", New(1), Row(2)) >>)

MillTierClaims == [ tier1 |-> <<3, 4>>, tier2 |-> <<5, 7>>, tier3 |-> <<8, 12>> ]
MillTierAmounts ==
    [ tier1 |-> <<12000, 18000>>, tier2 |-> <<18000, 28000>>, tier3 |-> <<28000, 45000>> ]

\* the provider of a mill-shaped pattern and its claims
MillInstance(s, provider_id, claims, amount_range, d) ==
    LET s1 == [ s EXCEPT !.provider_counter = Incr(@) ]
        s2 == Statement(s1, <<>>, << Entity({"MedicalProvider"}, provider_id) >>, <<>>)
    IN  Repeat(LAMBDA t, j : CreateImplicitMedicalClaim(t, provider_id, amount_range, d),
               s2, RandInt(claims[1], claims[2], d.n))

\* FraudDataGenerator._create_implicit_medical_mill_tier1 .. _tier3
CreateImplicitMedicalMillTier(s, tier, count, d) ==
    IF count = 0 THEN s
    ELSE TierDone(
           Repeat(LAMBDA t, i :
                    Tag(t, MillInstance(t, Id2(TierPrefix("MED_IMP_T", tier), i, t.provider_counter),
                                        MillTierClaims[tier], MillTierAmounts[tier], d),
                        <<"medical_mill", tier, i>>),
                  s, count),
           tier, "medical_mill", count)

KickbackAmounts == <<8000, 25000>>

\* FraudDataGenerator._create_implicit_kickback_claim
CreateImplicitKickbackClaim(s, attorney_id, bodyshop_id, d) ==
    LET claim_id == Id1("CLM", s.claim_counter)
        claimant_id == Id1("P", s.person_counter)
        s1 == [ s EXCEPT !.claim_counter = Incr(@), !.person_counter = Incr(@) ]
    IN  IF s1.adjuster_pool = <<>> THEN [ s1 EXCEPT !.error = "IndexError" ]
        ELSE Statement(s1,
                 << Pattern({"Attorney"}, attorney_id),
                    Pattern({"BodyShop"}, bodyshop_id),
                    Pattern({"Person", "Adjuster"},
                            Choice(s1.adjuster_pool, d.adj, s.claim_counter)) >>,
                 << ClaimNode(claim_id, "Auto", Uniform(KickbackAmounts, d.amount)),
                    Entity({"Person", "Claimant"}, claimant_id) >>,
                 << Link("FILED_BY", New(1), New(2)),
                    Link("REPRESENTED_BY", New(1), Row(1)),
                    Link("REPAIRED_AT", New(1), Row(2)),
                    Link("HANDLED_BY", New(1), Row(3)) >>)

KickbackTierClaims == [ tier1 |-> <<2, 2>>, tier2 |-> <<3, 4>>, tier3 |-> <<5, 8>> ]

\* the attorney and body shop of a kickback-shaped pattern and their claims
KickbackInstance(s, attorney_id, bodyshop_id, claims, d) ==
    LET s1 == [ s EXCEPT !.attorney_counter = Incr(@), !.bodyshop_counter = Incr(@) ]
        s2 == Statement(s1, <<>>, << Entity({"Attorney"}, attorney_id),
                                     Entity({"BodyShop"}, bodyshop_id) >>, <<>>)
    IN  Repeat(LAMBDA t, j : CreateImplicitKickbackClaim(t, attorney_id, bodyshop_id, d),
               s2, RandInt(claims[1], claims[2], d.n))

\* FraudDataGenerator._create_implicit_kickback_tier1 .. _tier3
CreateImplicitKickbackTier(s, tier, count, d) ==
    IF count = 0 THEN s
    ELSE TierDone(
           Repeat(LAMBDA t, i :
                    Tag(t, KickbackInstance(t, Id2(TierPrefix("ATT_IMP_T", tier), i, t.attorney_counter),
                                            Id2(TierPrefix("BS_IMP_T", tier), i, t.bodyshop_counter),
                                            KickbackTierClaims[tier], d),
                        <<"kickback", tier, i>>),
                  s, count),
           tier, "kickback", count)

(***************************************************************************)
(* Tiered implicit patterns: staged accident, phantom passenger and        *)
(* adjuster collusion                                                      *)
(***************************************************************************)
\* the pairs a < b of 1..n, in lexicographic order
PairsOf(n) == Flatten([ a \in 1..n |-> [ k \in 1..(n - a) |-> <<a, a + k>> ] ])

\* random.sample(conspirators, random.randint(2, most)) for the claim numbered
\* j: the first `most` of them, the first two, or the j-th pair in turn
Sample(conspirators, most, d, j) ==
    LET pairs == PairsOf(Len(conspirators))
        pick == IF d = "all" THEN [ k \in 1..most |-> k ]
                ELSE IF d = "same" THEN <<1, 2>>
                ELSE pairs[(j % Len(pairs)) + 1]
    IN  [ k \in 1..Len(pick) |-> conspirators[pick[k]] ]

StagedAmounts == <<10000, 35000>>

\* FraudDataGenerator._create_implicit_staged_claim
CreateImplicitStagedClaim(s, conspirators, d) ==
    LET claim_id == Id1("CLM", s.claim_counter)
        s1 == [ s EXCEPT !.claim_counter = Incr(@) ]
        participants == Sample(conspirators, Len(conspirators), d.sample, s.claim_counter)
        s2 == Statement(s1,
                  << Pattern({"Person", "Adjuster"},
                             Choice(s1.adjuster_pool, d.adj, s.claim_counter)) >>,
                  << ClaimNode(claim_id, "Auto", Uniform(StagedAmounts, d.amount)) >>,
                  << Link("HANDLED_BY", New(1), Row(1)) >>)
    IN  IF s1.adjuster_pool = <<>> THEN [ s1 EXCEPT !.error = "IndexError" ]
        ELSE Repeat(LAMBDA t, idx :
                      Statement(t, << Pattern({"Claim"}, claim_id),
                                      Pattern({"Person"}, participants[idx + 1]) >>,
                                <<>>,
                                << Link(IF idx = 0 THEN "FILED_BY" ELSE "WITNESSED_BY",
                                        Row(1), Row(2)) >>),
                    s2, Len(participants))

StagedTierConspirators == [ tier1 |-> <<2, 3>>, tier2 |-> <<3, 4>>, tier3 |-> <<4, 5>> ]
StagedTierClaims == [ tier1 |-> <<2, 2>>, tier2 |-> <<3, 4>>, tier3 |-> <<5, 6>> ]

\* one pass of the loop over range(count) in _create_implicit_staged_tierN
StagedInstance(s, tier, d) ==
    LET num == RandInt(StagedTierConspirators[tier][1], StagedTierConspirators[tier][2], d.n)
        s1 == Repeat(LAMBDA t, j :
                       Statement([ t EXCEPT !.person_counter = Incr(@) ], <<>>,
                                 << Entity({"Person", "Claimant"}, Id1("P", t.person_counter)) >>,
                                 <<>>),
                     s, num)
        conspirators == [ j \in 1..num |-> s1.created[Len(s.created) + j].id ]
    IN  Repeat(LAMBDA t, acc : CreateImplicitStagedClaim(t, conspirators, d),
               s1, RandInt(StagedTierClaims[tier][1], StagedTierClaims[tier][2], d.n))

\* FraudDataGenerator._create_implicit_staged_tier1 .. _tier3
CreateImplicitStagedTier(s, tier, count, d) ==
    IF count = 0 THEN s
    ELSE TierDone(
           Repeat(LAMBDA t, i : Tag(t, StagedInstance(t, tier, d), <<"staged", tier, i>>),
                  s, count),
           tier, "staged", count)

PhantomAmounts == <<8000, 28000>>

\* FraudDataGenerator._create_implicit_phantom_claim
CreateImplicitPhantomClaim(s, main_claimant_id, d) ==
    LET phantom_id == Id1("P", s.person_counter)
        claim_id == Id1("CLM", s.claim_counter)
        s1 == [ s EXCEPT !.person_counter = Incr(@), !.claim_counter = Incr(@) ]
    IN  IF s1.adjuster_pool = <<>> THEN [ s1 EXCEPT !.error = "IndexError" ]
        ELSE Statement(s1,
                 << Pattern({"Person"}, main_claimant_id),
                    Pattern({"Person", "Adjuster"},
                            Choice(s1.adjuster_pool, d.adj, s.claim_counter)) >>,
                 << Entity({"Person", "Claimant"}, phantom_id),
                    ClaimNode(claim_id, "Auto", Uniform(PhantomAmounts, d.amount)) >>,
                 << Link("FILED_BY", New(2), New(1)),
                    Link("HANDLED_BY", New(2), Row(2)),
                    Link("KNOWS", New(1), Row(1)) >>)

PhantomTierPhantoms == [ tier1 |-> <<2, 2>>, tier2 |-> <<3, 4>>, tier3 |-> <<5, 7>> ]

\* one pass of the loop over range(count) in _create_implicit_phantom_tierN
PhantomInstance(s, tier, d) ==
    LET main_id == Id1("P", s.person_counter)
        s1 == [ s EXCEPT !.person_counter = Incr(@) ]
        s2 == Statement(s1, <<>>, << Entity({"Person", "Claimant"}, main_id) >>, <<>>)
    IN  Repeat(LAMBDA t, j : CreateImplicitPhantomClaim(t, main_id, d),
               s2, RandInt(PhantomTierPhantoms[tier][1], PhantomTierPhantoms[tier][2], d.n))

\* FraudDataGenerator._create_implicit_phantom_tier1 .. _tier3
CreateImplicitPhantomTier(s, tier, count, d) ==
    IF count = 0 THEN s
    ELSE TierDone(
           Repeat(LAMBDA t, i : Tag(t, PhantomInstance(t, tier, d), <<"phantom", tier, i>>),
                  s, count),
           tier, "phantom", count)

CollusionAmounts == <<10000, 35000>>

\* FraudDataGenerator._create_implicit_adjuster_collusion_claim
CreateImplicitAdjusterCollusionClaim(s, adjuster_id, provider_id, d) ==
    LET claim_id == Id1("CLM", s.claim_counter)
        claimant_id == Id1("P", s.person_counter)
        s1 == [ s EXCEPT !.claim_counter = Incr(@), !.person_counter = Incr(@) ]
    IN  Statement(s1,
            << Pattern({"Person", "Adjuster"}, adjuster_id),
               Pattern({"MedicalProvider"}, provider_id) >>,
            << ClaimNode(claim_id, "Medical", Uniform(CollusionAmounts, d.amount)),
               Entity({"Person", "Claimant"}, claimant_id) >>,
            << Link("FILED_BY", New(1), New(2)),
               Link("TREATED_AT", New(1), Row(2)),
               Link("HANDLED_BY", New(1), Row(1)) >>)

CollusionTierClaims == [ tier1 |-> <<3, 3>>, tier2 |-> <<4, 5>>, tier3 |-> <<6, 8>> ]

\* one pass of the loop over range(count) in _create_implicit_adjuster_collusion_tierN
CollusionInstance(s, tier, i, d) ==
    LET adjuster_id == Id2(TierPrefix("ADJ_IMP_T", tier), i, s.adjuster_counter)
        provider_id == Id2(TierPrefix("MED_IMP_AC_T", tier), i, s.provider_counter)
        s1 == [ s EXCEPT !.adjuster_counter = Incr(@), !.provider_counter = Incr(@) ]
        s2 == Statement(s1, <<>>,
                  << NewNode({"Person", "Adjuster"}, adjuster_id, "null", "null", "null", {},
                             <<"EMP", Pad5(s1.adjuster_counter)>>),
                     Entity({"MedicalProvider"}, provider_id) >>,
                  <<>>)
    IN  Repeat(LAMBDA t, j : CreateImplicitAdjusterCollusionClaim(t, adjuster_id, provider_id, d),
               s2, RandInt(CollusionTierClaims[tier][1], CollusionTierClaims[tier][2], d.n))

\* FraudDataGenerator._create_implicit_adjuster_collusion_tier1 .. _tier3
CreateImplicitAdjusterCollusionTier(s, tier, count, d) ==
    IF count = 0 THEN s
    ELSE TierDone(
           Repeat(LAMBDA t, i :
                    Tag(t, CollusionInstance(t, tier, i, d), <<"adjuster_collusion", tier, i>>),
                  s, count),
           tier, "adjuster_collusion", count)

Archetypes == <<"medical_mill", "kickback", "staged", "phantom", "adjuster_collusion">>

TierBuilder(s, archetype, tier, count, d) ==
    CASE archetype = "medical_mill" -> CreateImplicitMedicalMillTier(s, tier, count, d)
      [] archetype = "kickback" -> CreateImplicitKickbackTier(s, tier, count, d)
      [] archetype = "staged" -> CreateImplicitStagedTier(s, tier, count, d)
      [] archetype = "phantom" -> CreateImplicitPhantomTier(s, tier, count, d)
      [] archetype = "adjuster_collusion" -> CreateImplicitAdjusterCollusionTier(s, tier, count, d)

\* FraudDataGenerator.create_tiered_implicit_fraud_patterns: the fifteen
\* builders in the order of the calls, each with its count of tier_config
CreateTieredImplicitFraudPatterns(s, tier_config, d) ==
    Repeat(LAMBDA t, k :
             LET archetype == Archetypes[(k \div Len(Tiers)) + 1]
                 tier == Tiers[(k % Len(Tiers)) + 1]
             IN  TierBuilder(t, archetype, tier, tier_config[archetype][tier], d),
           s, Len(Archetypes) * Len(Tiers))

(***************************************************************************)
(* Near-miss legitimate patterns                                           *)
(***************************************************************************)
NearMissDone(s, pattern, count) ==
    IF s.error # "none" THEN s
    ELSE [ s EXCEPT !.generation_stats.near_miss_legitimate[pattern] = count ]

HighVolumeClaims == <<4, 5>>
HighVolumeAmounts == <<5000, 15000>>

\* FraudDataGenerator._create_high_volume_legitimate_providers
CreateHighVolumeLegitimateProviders(s, count, d) ==
    IF count = 0 THEN s
    ELSE NearMissDone(
           Repeat(LAMBDA t, i :
                    Tag(t, MillInstance(t, Id2("MED_LEGIT", i, t.provider_counter),
                                        HighVolumeClaims, HighVolumeAmounts, d),
                        <<"near_miss", "high_volume_providers", i>>),
                  s, count),
           "high_volume_providers", count)

ReferralClaims == <<2, 2>>

\* FraudDataGenerator._create_repeat_legitimate_referrals
CreateRepeatLegitimateReferrals(s, count, d) ==
    IF count = 0 THEN s
    ELSE NearMissDone(
           Repeat(LAMBDA t, i :
                    Tag(t, KickbackInstance(t, Id2("ATT_LEGIT", i, t.attorney_counter),
                                            Id2("BS_LEGIT", i, t.bodyshop_counter),
                                            ReferralClaims, d),
                        <<"near_miss", "repeat_referrals", i>>),
                  s, count),
           "repeat_referrals", count)

WitnessAmounts == <<5000, 20000>>
WitnessClaims == 2

\* one pass of the loop over range(count) in _create_repeat_legitimate_witnesses
RepeatWitnessInstance(s, d) ==
    LET person1_id == Id1("P", s.person_counter)
        s1 == [ s EXCEPT !.person_counter = Incr(@) ]
        person2_id == Id1("P", s1.person_counter)
        s2 == [ s1 EXCEPT !.person_counter = Incr(@) ]
        s3 == Statement(s2, <<>>, << Entity({"Person", "Claimant"}, person1_id),
                                     Entity({"Person", "Claimant"}, person2_id) >>, <<>>)
    IN  Repeat(LAMBDA t, j :
                 LET claim_id == Id1("CLM", t.claim_counter)
                     t1 == [ t EXCEPT !.claim_counter = Incr(@) ]
                 IN  IF t1.adjuster_pool = <<>> THEN [ t1 EXCEPT !.error = "IndexError" ]
                     ELSE Statement(t1,
                              << Pattern({"Person"}, person1_id),
                                 Pattern({"Person"}, person2_id),
                                 Pattern({"Person", "Adjuster"},
                                         Choice(t1.adjuster_pool, d.adj, t.claim_counter)) >>,
                              << ClaimNode(claim_id, "Auto", Uniform(WitnessAmounts, d.amount)) >>,
                              << Link("FILED_BY", New(1), Row(1)),
                                 Link("WITNESSED_BY", New(1), Row(2)),
                                 Link("HANDLED_BY", New(1), Row(3)) >>),
               s3, WitnessClaims)

\* FraudDataGenerator._create_repeat_legitimate_witnesses
CreateRepeatLegitimateWitnesses(s, count, d) ==
    IF count = 0 THEN s
    ELSE NearMissDone(
           Repeat(LAMBDA t, i :
                    Tag(t, RepeatWitnessInstance(t, d), <<"near_miss", "repeat_witnesses", i>>),
                  s, count),
           "repeat_witnesses", count)

\* the three builders in the order of the calls, left at the first exception
Sequentially(s, Second(_), Third(_)) ==
    IF s.error # "none" THEN s
    ELSE LET t == Second(s) IN IF t.error # "none" THEN t ELSE Third(t)

\* FraudDataGenerator.create_near_miss_legitimate_patterns
CreateNearMissLegitimatePatterns(s, config, d) ==
    Sequentially(CreateHighVolumeLegitimateProviders(s, config.high_volume_providers, d),
                 LAMBDA t : CreateRepeatLegitimateReferrals(t, config.repeat_referrals, d),
                 LAMBDA t : CreateRepeatLegitimateWitnesses(t, config.repeat_witnesses, d))

(***************************************************************************)
(* Service-provider pools and legitimate claims                            *)
(***************************************************************************)
MedicalPoolSize == <<15, 25>>
AttorneyPoolSize == <<10, 15>>
BodyShopPoolSize == <<8, 12>>

\* FraudDataGenerator.create_service_provider_pools
CreateServiceProviderPools(s, d) ==
    LET s1 == Repeat(LAMBDA t, i :
                       LET provider_id == Id1("MED", t.provider_counter)
                           t1 == Statement(t, <<>>, << Entity({"MedicalProvider"}, provider_id) >>, <<>>)
                       IN  [ t1 EXCEPT !.medical_provider_pool = Append(@, provider_id),
                                       !.provider_counter = Incr(@) ],
                     s, RandInt(MedicalPoolSize[1], MedicalPoolSize[2], d.n))
        s2 == Repeat(LAMBDA t, i :
                       LET attorney_id == Id1("ATT", t.attorney_counter)
                           t1 == Statement(t, <<>>, << Entity({"Attorney"}, attorney_id) >>, <<>>)
                       IN  [ t1 EXCEPT !.attorney_pool = Append(@, attorney_id),
                                       !.attorney_counter = Incr(@) ],
                     s1, RandInt(AttorneyPoolSize[1], AttorneyPoolSize[2], d.n))
    IN  Repeat(LAMBDA t, i :
                 LET bodyshop_id == Id1("BS", t.bodyshop_counter)
                     t1 == Statement(t, <<>>, << Entity({"BodyShop"}, bodyshop_id) >>, <<>>)
                 IN  [ t1 EXCEPT !.bodyshop_pool = Append(@, bodyshop_id),
                                 !.bodyshop_counter = Incr(@) ],
               s2, RandInt(BodyShopPoolSize[1], BodyShopPoolSize[2], d.n))

\* FraudDataGenerator.add_witness
AddWitness(s, claim_id) ==
    LET witness_id == Id1("P", s.person_counter)
    IN  Statement([ s EXCEPT !.person_counter = Incr(@) ],
                  << Pattern({"Claim"}, claim_id) >>,
                  << Entity({"Person", "Witness"}, witness_id) >>,
                  << Link("WITNESSED_BY", Row(1), New(1)) >>)

\* FraudDataGenerator.add_medical_provider, add_attorney, add_bodyshop: the
\* claim linked to random.choice(pool)
AddFromPool(s, claim_id, pool, label, type, d, j) ==
    IF pool = <<>> THEN [ s EXCEPT !.error = "IndexError" ]
    ELSE Statement(s, << Pattern({"Claim"}, claim_id), Pattern({label}, Choice(pool, d, j)) >>,
                   <<>>, << Link(type, Row(1), Row(2)) >>)

LegitAmounts == <<1000, 50000>>

\* the draws of one call of create_legitimate_claims: the claim type, and
\* whether random.random() fell below the witness, attorney and body-shop rates
LegitDraws ==
    { [ claim_type |-> "Medical", witness |-> TRUE, attorney |-> TRUE, bodyshop |-> FALSE ],
      [ claim_type |-> "Auto", witness |-> FALSE, attorney |-> TRUE, bodyshop |-> TRUE ],
      [ claim_type |-> "Property", witness |-> TRUE, attorney |-> FALSE, bodyshop |-> FALSE ] }

\* one pass of the loop of create_legitimate_claims
LegitimateClaim(s, d) ==
    LET claim_id == Id1("CLM", s.claim_counter)
        claimant_id == Id1("P", s.person_counter)
        j == s.claim_counter
        s1 == [ s EXCEPT !.claim_counter = Incr(@), !.person_counter = Incr(@) ]
        s2 == Statement(s1,
                  << Pattern({"Person", "Adjuster"}, Choice(s1.adjuster_pool, d.adj, j)) >>,
                  << ClaimNode(claim_id, d.legit.claim_type, Uniform(LegitAmounts, d.amount)),
                     Entity({"Person", "Claimant"}, claimant_id) >>,
                  << Link("FILED_BY", New(1), New(2)), Link("HANDLED_BY", New(1), Row(1)) >>)
        s3 == IF d.legit.witness THEN AddWitness(s2, claim_id) ELSE s2
        s4 == IF d.legit.claim_type = "Medical"
              THEN AddFromPool(s3, claim_id, s3.medical_provider_pool, "MedicalProvider",
                               "TREATED_AT", d.adj, j)
              ELSE IF d.legit.claim_type = "Auto" /\ d.legit.bodyshop
              THEN AddFromPool(s3, claim_id, s3.bodyshop_pool, "BodyShop", "REPAIRED_AT", d.adj, j)
              ELSE s3
    IN  IF s4.error = "none" /\ d.legit.attorney
        THEN AddFromPool(s4, claim_id, s4.attorney_pool, "Attorney", "REPRESENTED_BY", d.adj, j)
        ELSE s4

\* the messages of the two ValueErrors of create_legitimate_claims
AdjusterPoolEmpty == "ValueError: Adjuster pool is empty! Call create_adjuster_pool() first."
MedicalPoolEmpty ==
    "ValueError: Medical provider pool is empty! Call create_service_provider_pools() first."

\* Faulty variant: only the adjuster pool is verified
AdjustersPopulated(s) ==
    IF s.adjuster_pool = <<>> THEN AdjusterPoolEmpty ELSE "none"

\* "Verify pools are populated": the error raised before the loop, "none" if none
PoolsPopulated(s) ==
    IF s.adjuster_pool = <<>> THEN AdjusterPoolEmpty
    ELSE IF s.medical_provider_pool = <<>> THEN MedicalPoolEmpty
    ELSE "none"

\* FraudDataGenerator.create_legitimate_claims
CreateLegitimateClaims(s, num_claims, d) ==
    IF PoolsPopulated(s) # "none"
    THEN [ s EXCEPT !.error = PoolsPopulated(s) ]
    ELSE LET r == Repeat(LAMBDA t, i : LegitimateClaim(t, d), s, num_claims)
         IN  IF r.error # "none" THEN r
             ELSE [ r EXCEPT !.generation_stats.legitimate_claims = num_claims ]

(***************************************************************************)
(* Explicit (labelled) fraud rings                                         *)
(***************************************************************************)
FraudEntity(labels, id, fraud_type) == NewNode(labels, id, "true", fraud_type, "null", {}, <<>>)
FraudClaim(id, fraud_type, claim_type, amount) ==
    NewNode({"Claim"}, id, "true", fraud_type, claim_type, Some(amount), <<>>)

\* with stats['explicit_fraud'][archetype] = num_rings, unless the builder was aborted
ExplicitDone(s, archetype, num_rings) ==
    IF s.error # "none" THEN s
    ELSE [ s EXCEPT !.generation_stats.explicit_fraud[archetype] = num_rings ]

ExplicitMillClaims == <<8, 15>>
ExplicitMillAmounts == <<15000, 45000>>

\* FraudDataGenerator.create_medical_mill
CreateMedicalMill(s, num_rings, d) ==
    ExplicitDone(
      Repeat(LAMBDA r, ring :
               LET provider_id == Id2("MED_FRAUD_MM", ring, r.provider_counter)
                   r1 == Statement([ r EXCEPT !.provider_counter = Incr(@) ], <<>>,
                             << FraudEntity({"MedicalProvider"}, provider_id, "Medical Mill") >>, <<>>)
                   attorney_id == Id2("ATT_FRAUD_MM", ring, r1.attorney_counter)
                   r2 == Statement([ r1 EXCEPT !.attorney_counter = Incr(@) ], <<>>,
                             << FraudEntity({"Attorney"}, attorney_id, "Medical Mill") >>, <<>>)
               IN  Repeat(LAMBDA t, i :
                            LET claim_id == Id1("CLM", t.claim_counter)
                                claimant_id == Id1("P", t.person_counter)
                                t1 == [ t EXCEPT !.claim_counter = Incr(@), !.person_counter = Incr(@) ]
                            IN  IF t1.adjuster_pool = <<>> THEN [ t1 EXCEPT !.error = "IndexError" ]
                                ELSE Statement(t1,
                                         << Pattern({"MedicalProvider"}, provider_id),
                                            Pattern({"Attorney"}, attorney_id),
                                            Pattern({"Person", "Adjuster"},
                                                    Choice(t1.adjuster_pool, d.adj, t.claim_counter)) >>,
                                         << FraudClaim(claim_id, "Medical Mill", "Medical",
                                                       Uniform(ExplicitMillAmounts, d.amount)),
                                            Entity({"Person", "Claimant"}, claimant_id) >>,
                                         << Link("FILED_BY", New(1), New(2)),
                                            Link("TREATED_AT", New(1), Row(1)),
                                            Link("REPRESENTED_BY", New(1), Row(2)),
                                            Link("HANDLED_BY", New(1), Row(3)) >>),
                          r2, RandInt(ExplicitMillClaims[1], ExplicitMillClaims[2], d.n)),
             s, num_rings),
      "medical_mill", num_rings)

ExplicitKickbackClaims == <<6, 12>>

\* FraudDataGenerator.create_bodyshop_kickback
CreateBodyshopKickback(s, num_rings, d) ==
    ExplicitDone(
      Repeat(LAMBDA r, ring :
               LET attorney_id == Id2("ATT_FRAUD_BK", ring, r.attorney_counter)
                   bodyshop_id == Id2("BS_FRAUD_BK", ring, r.bodyshop_counter)
                   r1 == Statement([ r EXCEPT !.attorney_counter = Incr(@), !.bodyshop_counter = Incr(@) ],
                             <<>>,
                             << FraudEntity({"Attorney"}, attorney_id, "Body Shop Kickback"),
                                FraudEntity({"BodyShop"}, bodyshop_id, "Body Shop Kickback") >>,
                             << Link("REFERS_TO", New(1), New(2)) >>)
               IN  Repeat(LAMBDA t, i :
                            LET claim_id == Id1("CLM", t.claim_counter)
                                claimant_id == Id1("P", t.person_counter)
                                t1 == [ t EXCEPT !.claim_counter = Incr(@), !.person_counter = Incr(@) ]
                            IN  IF t1.adjuster_pool = <<>> THEN [ t1 EXCEPT !.error = "IndexError" ]
                                ELSE Statement(t1,
                                         << Pattern({"Attorney"}, attorney_id),
                                            Pattern({"BodyShop"}, bodyshop_id),
                                            Pattern({"Person", "Adjuster"},
                                                    Choice(t1.adjuster_pool, d.adj, t.claim_counter)) >>,
                                         << FraudClaim(claim_id, "Body Shop Kickback", "Auto",
                                                       Uniform(KickbackAmounts, d.amount)),
                                            Entity({"Person", "Claimant"}, claimant_id) >>,
                                         << Link("FILED_BY", New(1), New(2)),
                                            Link("REPRESENTED_BY", New(1), Row(1)),
                                            Link("REPAIRED_AT", New(1), Row(2)),
                                            Link("HANDLED_BY", New(1), Row(3)) >>),
                          r1, RandInt(ExplicitKickbackClaims[1], ExplicitKickbackClaims[2], d.n)),
             s, num_rings),
      "kickback", num_rings)

ExplicitStagedConspirators == <<4, 7>>
ExplicitStagedAccidents == <<3, 6>>
ExplicitStagedAmounts == <<10000, 40000>>
ExplicitStagedMost == 4

\* FraudDataGenerator.create_staged_accident
CreateStagedAccident(s, num_rings, d) ==
    ExplicitDone(
      Repeat(LAMBDA r, ring :
               LET num_conspirators ==
                       RandInt(ExplicitStagedConspirators[1], ExplicitStagedConspirators[2], d.n)
                   r1 == Repeat(LAMBDA t, i :
                                  Statement([ t EXCEPT !.person_counter = Incr(@) ], <<>>,
                                            << FraudEntity({"Person", "Claimant"},
                                                           Id1("P", t.person_counter),
                                                           "Staged Accident") >>,
                                            <<>>),
                                r, num_conspirators)
                   conspirator_ids ==
                       [ i \in 1..num_conspirators |-> r1.created[Len(r.created) + i].id ]
               IN  Repeat(LAMBDA t, acc :
                            LET claim_id == Id1("CLM", t.claim_counter)
                                t1 == [ t EXCEPT !.claim_counter = Incr(@) ]
                                participants ==
                                    Sample(conspirator_ids, Min(ExplicitStagedMost, Len(conspirator_ids)),
                                           d.sample, t.claim_counter)
                                t2 == Statement(t1,
                                          << Pattern({"Person", "Adjuster"},
                                                     Choice(t1.adjuster_pool, d.adj, t.claim_counter)) >>,
                                          << FraudClaim(claim_id, "Staged Accident", "Auto",
                                                        Uniform(ExplicitStagedAmounts, d.amount)) >>,
                                          << Link("HANDLED_BY", New(1), Row(1)) >>)
                            IN  IF t1.adjuster_pool = <<>> THEN [ t1 EXCEPT !.error = "IndexError" ]
                                ELSE Repeat(LAMBDA u, idx :
                                              Statement(u, << Pattern({"Claim"}, claim_id),
                                                              Pattern({"Person"}, participants[idx + 1]) >>,
                                                        <<>>,
                                                        << Link(IF idx = 0 THEN "FILED_BY"
                                                                ELSE "WITNESSED_BY", Row(1), Row(2)) >>),
                                            t2, Len(participants)),
                          r1, RandInt(ExplicitStagedAccidents[1], ExplicitStagedAccidents[2], d.n)),
             s, num_rings),
      "staged", num_rings)

ExplicitPhantoms == <<3, 6>>
ExplicitPhantomAmounts == <<8000, 30000>>

\* FraudDataGenerator.create_phantom_passenger
CreatePhantomPassenger(s, num_rings, d) ==
    ExplicitDone(
      Repeat(LAMBDA r, ring :
               LET main_claimant_id == Id1("P", r.person_counter)
                   r1 == Statement([ r EXCEPT !.person_counter = Incr(@) ], <<>>,
                             << FraudEntity({"Person", "Claimant"}, main_claimant_id,
                                            "Phantom Passenger") >>, <<>>)
               IN  Repeat(LAMBDA t, i :
                            LET phantom_id == Id1("P", t.person_counter)
                                claim_id == Id1("CLM", t.claim_counter)
                                t1 == [ t EXCEPT !.person_counter = Incr(@), !.claim_counter = Incr(@) ]
                            IN  IF t1.adjuster_pool = <<>> THEN [ t1 EXCEPT !.error = "IndexError" ]
                                ELSE Statement(t1,
                                         << Pattern({"Person"}, main_claimant_id),
                                            Pattern({"Person", "Adjuster"},
                                                    Choice(t1.adjuster_pool, d.adj, t.claim_counter)) >>,
                                         << FraudEntity({"Person", "Claimant"}, phantom_id,
                                                        "Phantom Passenger"),
                                            FraudClaim(claim_id, "Phantom Passenger", "Auto",
                                                       Uniform(ExplicitPhantomAmounts, d.amount)) >>,
                                         << Link("FILED_BY", New(2), New(1)),
                                            Link("HANDLED_BY", New(2), Row(2)),
                                            Link("KNOWS", New(1), Row(1)) >>),
                          r1, RandInt(ExplicitPhantoms[1], ExplicitPhantoms[2], d.n)),
             s, num_rings),
      "phantom", num_rings)

ExplicitCollusionClaims == <<6, 10>>
ExplicitCollusionAmounts == <<12000, 40000>>
FraudEmployeeNumbers == <<10000, 99999>>

\* FraudDataGenerator.create_adjuster_collusion
CreateAdjusterCollusion(s, num_rings, d) ==
    ExplicitDone(
      Repeat(LAMBDA r, ring :
               LET adjuster_id == Id2("ADJ_FRAUD_AC", ring, r.adjuster_counter)
                   provider_id == Id2("MED_FRAUD_AC", ring, r.provider_counter)
                   r1 == Statement([ r EXCEPT !.adjuster_counter = Incr(@), !.provider_counter = Incr(@) ],
                             <<>>,
                             << NewNode({"Person", "Adjuster"}, adjuster_id, "true",
                                        "Adjuster-Provider Collusion", "null", {},
                                        <<"EMP-FRAUD", Digits(RandInt(FraudEmployeeNumbers[1],
                                                                      FraudEmployeeNumbers[2], d.n))>>),
                                FraudEntity({"MedicalProvider"}, provider_id,
                                            "Adjuster-Provider Collusion") >>,
                             << Link("COLLUDES_WITH", New(1), New(2)) >>)
               IN  Repeat(LAMBDA t, i :
                            LET claim_id == Id1("CLM", t.claim_counter)
                                claimant_id == Id1("P", t.person_counter)
                                t1 == [ t EXCEPT !.claim_counter = Incr(@), !.person_counter = Incr(@) ]
                            IN  Statement(t1,
                                    << Pattern({"Person", "Adjuster"}, adjuster_id),
                                       Pattern({"MedicalProvider"}, provider_id) >>,
                                    << FraudClaim(claim_id, "Adjuster-Provider Collusion", "Medical",
                                                  Uniform(ExplicitCollusionAmounts, d.amount)),
                                       Entity({"Person", "Claimant"}, claimant_id) >>,
                                    << Link("FILED_BY", New(1), New(2)),
                                       Link("TREATED_AT", New(1), Row(2)),
                                       Link("HANDLED_BY", New(1), Row(1)) >>),
                          r1, RandInt(ExplicitCollusionClaims[1], ExplicitCollusionClaims[2], d.n)),
             s, num_rings),
      "adjuster_collusion", num_rings)

(***************************************************************************)
(* FraudDataGenerator.create_implicit_fraud_patterns (legacy entry point)  *)
(***************************************************************************)
\* pattern_config when the argument is None
DefaultPatternConfig ==
    [ medical_mill |-> 2, kickback |-> 1, staged |-> 1, phantom |-> 1 ]

\* int(count * 0.4): the double product truncated
FortyPercent(count) == (4 * count) \div 10

\* the tier counts one flat count is mapped to
TierSplit(count) ==
    IF count > 0
    THEN [ tier1 |-> Max(1, FortyPercent(count)),
           tier2 |-> Max(1, FortyPercent(count)),
           tier3 |-> Max(0, count - Max(1, FortyPercent(count)) - Max(1, FortyPercent(count))) ]
    ELSE [ tier1 |-> 0, tier2 |-> 0, tier3 |-> 0 ]

\* tier_config: one entry per key of pattern_config; the tiered generator
\* reads a missing archetype as tier_config.get(archetype, {}), every count 0
LegacyTierConfig(pattern_config) ==
    [ a \in Range(Archetypes) |->
        IF a \in DOMAIN pattern_config THEN TierSplit(pattern_config[a])
        ELSE TierSplit(0) ]

CreateImplicitFraudPatterns(s, pattern_config, d) ==
    CreateTieredImplicitFraudPatterns(s, LegacyTierConfig(pattern_config), d)

(***************************************************************************)
(* The operations of the generator, and the two specifications that run    *)
(* them: SpecGen, any MaxGenOps generator calls on one instance; SpecTier, *)
(* an adjuster pool (with or without a clear_database after it), one call  *)
(* of a pattern generator, then one call of the detection engine.          *)
(***************************************************************************)
MaxAdjusters == 2
MaxInstances == 1
MaxRings == 1
MaxLegitimate == 1
MaxGenOps == 3

Ends == {"lo", "hi"}
PoolChoices == {"first", "last", "alternate"}
Samples == {"same", "distinct", "all"}

\* every combination of the draws of one call
AllDraws ==
    [ n : Ends, adj : PoolChoices, amount : Ends, sample : Samples,
      legit : { l \in LegitDraws : l.claim_type = "Medical" } ]

\* three combinations of the draws of one call
SomeDraws ==
    { [ n |-> "lo", adj |-> "first", amount |-> "lo", sample |-> "same",
        legit |-> CHOOSE l \in LegitDraws : l.claim_type = "Medical" ],
      [ n |-> "lo", adj |-> "alternate", amount |-> "hi", sample |-> "distinct",
        legit |-> CHOOSE l \in LegitDraws : l.claim_type = "Auto" ],
      [ n |-> "hi", adj |-> "last", amount |-> "hi", sample |-> "all",
        legit |-> CHOOSE l \in LegitDraws : l.claim_type = "Property" ] }

NoTiers == [ a \in Range(Archetypes) |-> [ t \in Range(Tiers) |-> 0 ] ]

\* the tier_config arguments: up to MaxInstances instances of one tier of one archetype
TierConfigs ==
    { [ NoTiers EXCEPT ![a][t] = count ] :
        a \in Range(Archetypes), t \in Range(Tiers), count \in 1..MaxInstances }

\* the config arguments: up to MaxInstances instances of each near-miss
\* pattern, and one instance at least
NearMissConfigs ==
    { c \in [ high_volume_providers : 0..MaxInstances, repeat_referrals : 0..MaxInstances,
              repeat_witnesses : 0..MaxInstances ] :
        c.high_volume_providers + c.repeat_referrals + c.repeat_witnesses > 0 }

InitGen ==
    /\ nodes = <<>>
    /\ edges = <<>>
    /\ GeneratorInit
    /\ DetectorInit

\* what every completed generator operation leaves behind
Committed(s, name, args) ==
    /\ nodes' = s.nodes
    /\ edges' = s.edges
    /\ claim_counter' = s.claim_counter
    /\ person_counter' = s.person_counter
    /\ provider_counter' = s.provider_counter
    /\ attorney_counter' = s.attorney_counter
    /\ bodyshop_counter' = s.bodyshop_counter
    /\ adjuster_counter' = s.adjuster_counter
    /\ adjuster_pool' = s.adjuster_pool
    /\ medical_provider_pool' = s.medical_provider_pool
    /\ attorney_pool' = s.attorney_pool
    /\ bodyshop_pool' = s.bodyshop_pool
    /\ generation_stats' = s.generation_stats
    /\ created' = s.created
    /\ error' = s.error
    /\ ops' = ops + 1
    /\ last_op' = [ name |-> name, args |-> args ]
    /\ repeated' = (last_op = [ name |-> name, args |-> args ])
    /\ UNCHANGED detVars

ClearDatabaseOp == Committed(ClearDatabase(GenState), "clear_database", <<>>)

CreateAdjusterPoolOp ==
    \E num_adjusters \in 1..(MaxAdjusters - adjuster_counter) :
        Committed(CreateAdjusterPool(GenState, num_adjusters),
                  "create_adjuster_pool", <<num_adjusters>>)

CreateServiceProviderPoolsOp(D) ==
    \E d \in D :
        Committed(CreateServiceProviderPools(GenState, d), "create_service_provider_pools", <<>>)

CreateLegitimateClaimsOp(D) ==
    \E num_claims \in 0..MaxLegitimate, d \in D :
        Committed(CreateLegitimateClaims(GenState, num_claims, d),
                  "create_legitimate_claims", <<num_claims>>)

CreateMedicalMillOp(D) ==
    \E num_rings \in 1..MaxRings, d \in D :
        Committed(CreateMedicalMill(GenState, num_rings, d), "create_medical_mill", <<num_rings>>)

CreateBodyshopKickbackOp(D) ==
    \E num_rings \in 1..MaxRings, d \in D :
        Committed(CreateBodyshopKickback(GenState, num_rings, d),
                  "create_bodyshop_kickback", <<num_rings>>)

CreateStagedAccidentOp(D) ==
    \E num_rings \in 1..MaxRings, d \in D :
        Committed(CreateStagedAccident(GenState, num_rings, d),
                  "create_staged_accident", <<num_rings>>)

CreatePhantomPassengerOp(D) ==
    \E num_rings \in 1..MaxRings, d \in D :
        Committed(CreatePhantomPassenger(GenState, num_rings, d),
                  "create_phantom_passenger", <<num_rings>>)

CreateAdjusterCollusionOp(D) ==
    \E num_rings \in 1..MaxRings, d \in D :
        Committed(CreateAdjusterCollusion(GenState, num_rings, d),
                  "create_adjuster_collusion", <<num_rings>>)

CreateTieredImplicitFraudPatternsOp(D) ==
    \E tier_config \in TierConfigs, d \in D :
        Committed(CreateTieredImplicitFraudPatterns(GenState, tier_config, d),
                  "create_tiered_implicit_fraud_patterns", <<tier_config>>)

CreateNearMissLegitimatePatternsOp(D) ==
    \E config \in NearMissConfigs, d \in D :
        Committed(CreateNearMissLegitimatePatterns(GenState, config, d),
                  "create_near_miss_legitimate_patterns", <<config>>)

NextGen ==
    \/ ops < MaxGenOps /\ ClearDatabaseOp
    \/ ops < MaxGenOps /\ CreateAdjusterPoolOp
    \/ ops < MaxGenOps /\ CreateServiceProviderPoolsOp(SomeDraws)
    \/ ops < MaxGenOps /\ CreateLegitimateClaimsOp(SomeDraws)
    \/ ops < MaxGenOps /\ CreateMedicalMillOp(SomeDraws)
    \/ ops < MaxGenOps /\ CreateBodyshopKickbackOp(SomeDraws)
    \/ ops < MaxGenOps /\ CreateStagedAccidentOp(SomeDraws)
    \/ ops < MaxGenOps /\ CreatePhantomPassengerOp(SomeDraws)
    \/ ops < MaxGenOps /\ CreateAdjusterCollusionOp(SomeDraws)
    \/ ops < MaxGenOps /\ CreateTieredImplicitFraudPatternsOp(SomeDraws)
    \/ ops < MaxGenOps /\ CreateNearMissLegitimatePatternsOp(SomeDraws)

SpecGen == InitGen /\ [][NextGen]_vars

\* no pattern generator has run on this instance
Unbuilt ==
    /\ claim_counter = 0
    /\ person_counter = 0
    /\ provider_counter = 0
    /\ attorney_counter = 0

\* a pattern generator has just returned
Built ==
    /\ last_op.name \in { "create_tiered_implicit_fraud_patterns",
                          "create_near_miss_legitimate_patterns" }
    /\ error = "none"

NextTier ==
    \/ Unbuilt /\ CreateAdjusterPoolOp
    \/ Unbuilt /\ nodes # <<>> /\ ClearDatabaseOp
    \/ Unbuilt /\ adjuster_pool # <<>> /\ CreateTieredImplicitFraudPatternsOp(AllDraws)
    \/ Unbuilt /\ adjuster_pool # <<>> /\ CreateNearMissLegitimatePatternsOp(AllDraws)
    \/ Built /\ DetectMillsOp
    \/ Built /\ DetectKickbacksOp
    \/ Built /\ DetectStagedOp
    \/ Built /\ DetectPhantomsOp
    \/ Built /\ DetectCollusionOp
    \/ Built /\ RunAllOp

SpecTier == InitGen /\ [][NextTier]_vars

\* the flat counts of the legacy entry point: the default, and up to MaxFlat
\* patterns of one archetype
MaxFlat == 5

PatternConfigs ==
    { DefaultPatternConfig } \cup
    { [ a \in {archetype} |-> count ] : archetype \in Range(Archetypes), count \in 0..MaxFlat }

CreateImplicitFraudPatternsOp(D) ==
    \E pattern_config \in PatternConfigs, d \in D :
        Committed(CreateImplicitFraudPatterns(GenState, pattern_config, d),
                  "create_implicit_fraud_patterns", <<pattern_config>>)

\* an adjuster pool or none, then one call of the legacy entry point
LegacyPending == last_op.name \in {"init", "create_adjuster_pool"}

NextLegacy ==
    \/ Fresh /\ CreateAdjusterPoolOp
    \/ LegacyPending /\ CreateImplicitFraudPatternsOp(SomeDraws)

SpecLegacy == InitGen /\ [][NextLegacy]_vars

(***************************************************************************)
(* Labelled entities and the detectors: one detector call, either on an    *)
(* input graph or on the graph an explicit ring builder has generated      *)
(* with an adjuster pool.                                                  *)
(***************************************************************************)
InitLabelled ==
    /\ \E g \in InputGraphs \cup {EmptyGraph} : nodes = g.nodes /\ edges = g.edges
    /\ GeneratorInit
    /\ DetectorInit

RingBuilders ==
    { "create_medical_mill", "create_bodyshop_kickback", "create_staged_accident",
      "create_phantom_passenger", "create_adjuster_collusion" }

\* the adjuster pool exists and nothing else was generated
PoolOnly == last_op.name = "create_adjuster_pool"

\* a detector may run: on an input graph, or after a ring builder returned
Detectable ==
    \/ Fresh /\ nodes # <<>>
    \/ last_op.name \in RingBuilders /\ error = "none"

NextLabelled ==
    \/ Fresh /\ nodes = <<>> /\ CreateAdjusterPoolOp
    \/ PoolOnly /\ CreateMedicalMillOp(SomeDraws)
    \/ PoolOnly /\ CreateBodyshopKickbackOp(SomeDraws)
    \/ PoolOnly /\ CreateStagedAccidentOp(SomeDraws)
    \/ PoolOnly /\ CreatePhantomPassengerOp(SomeDraws)
    \/ PoolOnly /\ CreateAdjusterCollusionOp(SomeDraws)
    \/ Detectable /\ DetectMillsOp
    \/ Detectable /\ DetectKickbacksOp
    \/ Detectable /\ DetectStagedOp
    \/ Detectable /\ DetectPhantomsOp
    \/ Detectable /\ DetectCollusionOp

SpecLabelled == InitLabelled /\ [][NextLabelled]_vars

(***************************************************************************)
(* Properties of the detection engine                                      *)
(***************************************************************************)
SuspicionFields(n) == << n.suspicious, n.suspicion_type, n.suspicion_score >>

RunAllStep == last_op'.name = "run_all_detections" /\ ops' = ops + 1

\* C1: a run_all_detections call, whatever the graph and the thresholds, leaves
\* suspicious, suspicion_type and suspicion_score of every node whose is_fraud
\* is true as they were, and leaves is_fraud of every node as it was.
C1_GroundTruthImmutable ==
    [][ RunAllStep =>
          \A i \in DOMAIN nodes :
              /\ nodes'[i].is_fraud = nodes[i].is_fraud
              /\ nodes[i].is_fraud = "true" =>
                    SuspicionFields(nodes'[i]) = SuspicionFields(nodes[i]) ]_vars

\* run_all_detections has flagged a provider as a mill while a claim labelled
\* fraud is treated at that provider.
C1_Witness ==
    /\ last_op.name = "run_all_detections"
    /\ \E k \in DOMAIN edges :
          /\ edges[k].type = "TREATED_AT"
          /\ nodes[edges[k].src].is_fraud = "true"
          /\ nodes[edges[k].dst].suspicious = "true"
          /\ \E j \in DOMAIN results.medical_mills :
                results.medical_mills[j].provider_id = nodes[edges[k].dst].id

\* C2: a run_all_detections call that repeats the call before it (same
\* thresholds, nothing in between) returns the same five finding lists and
\* leaves every node's suspicion fields and degree_centrality and every
\* SUSPICIOUS_RELATIONSHIP edge as the first call left them.
C2_RunAllIdempotent ==
    [][ (RunAllStep /\ repeated') =>
          /\ results' = results
          /\ nodes' = nodes
          /\ edges' = edges ]_vars

\* the second of two identical run_all_detections calls has returned findings
\* and left flagged nodes and a SUSPICIOUS_RELATIONSHIP edge.
C2_Witness ==
    /\ last_op.name = "run_all_detections"
    /\ repeated
    /\ results.kickbacks # <<>>
    /\ \E k \in DOMAIN edges :
          /\ edges[k].type = "SUSPICIOUS_RELATIONSHIP"
          /\ edges[k].shared_claims # {}
          /\ nodes[edges[k].src].suspicious = "true"

NoDetectionState ==
    /\ \A i \in DOMAIN nodes :
          /\ SuspicionFields(nodes[i]) = << "null", "null", {} >>
          /\ nodes[i].degree_centrality = {}
    /\ \A k \in DOMAIN edges : edges[k].type # "SUSPICIOUS_RELATIONSHIP"

\* C3: after any clear_previous_detections call no node carries a suspicion
\* field or degree_centrality and no SUSPICIOUS_RELATIONSHIP edge exists; a call
\* right after another clear, or on an input graph no detection ran on, reports
\* the counts 0, 0, 0, raises nothing and leaves the graph as it was.
C3_ClearIdempotent ==
    [][ (last_op'.name = "clear_previous_detections" /\ ops' = ops + 1) =>
          /\ NoDetectionState'
          /\ last_op.name \in {"init", "clear_previous_detections"} =>
                /\ cleared' = NoCounts
                /\ error' = "none"
                /\ nodes' = nodes
                /\ edges' = edges ]_vars

\* a clear that followed a clear, after an earlier operation had flagged nodes:
\* the first clear removed them, the second found nothing.
C3_Witness ==
    /\ last_op.name = "clear_previous_detections"
    /\ repeated
    /\ ops = MaxOps
    /\ cleared = NoCounts
    /\ nodes # <<>>

(***************************************************************************)
(* Properties of the generator                                             *)
(***************************************************************************)
Categories == {"Claim", "Person", "MedicalProvider", "Attorney", "BodyShop", "Adjuster"}

\* the nodes of one category this generator instance has created so far,
\* whether or not a clear_database has deleted them since
CreatedAs(category) == { k \in DOMAIN created : category \in created[k].labels }

\* C4: after any sequence of generator operations on one instance, with or
\* without clear_database in between, no two nodes of the same category that
\* the instance created carry the same id.
C4_UniqueIds ==
    \A category \in Categories :
        Cardinality({ created[k].id : k \in CreatedAs(category) })
            = Cardinality(CreatedAs(category))

Stored(c) == \E i \in DOMAIN nodes : nodes[i].id = c.id /\ nodes[i].labels = c.labels

\* the instance created claims and persons, a clear_database deleted them,
\* and a later builder created claims and persons that are in the graph now.
C4_Witness ==
    \A category \in {"Claim", "Person"} :
        \E j, k \in CreatedAs(category) :
            j < k /\ ~Stored(created[j]) /\ Stored(created[k])

(***************************************************************************)
(* Properties of the generated tiers under the detectors' defaults         *)
(***************************************************************************)
\* the instances of one tier of one archetype (or of one near-miss pattern)
\* that have nodes in the graph
InstancesOf(archetype, tier) ==
    { nodes[i].origin : i \in { k \in DOMAIN nodes :
                                  /\ Len(nodes[k].origin) = 3
                                  /\ nodes[k].origin[1] = archetype
                                  /\ nodes[k].origin[2] = tier } }

\* the ids of the nodes of one instance that carry the label
MemberIds(origin, label) ==
    { nodes[i].id : i \in { k \in DOMAIN nodes :
                              nodes[k].origin = origin /\ label \in nodes[k].labels } }

SuspiciousIn(origin) == \E i \in DOMAIN nodes : nodes[i].origin = origin /\ nodes[i].suspicious = "true"

\* the detector named has just run with the arguments given, on a generator
\* whose adjuster pool is populated
RanAtDefault(name, args) ==
    /\ last_op = [ name |-> name, args |-> args ]
    /\ adjuster_pool # <<>>

StagedFindingsOf(origin) ==
    { j \in DOMAIN results.staged_accidents :
        { results.staged_accidents[j].person1_id, results.staged_accidents[j].person2_id }
            \cap MemberIds(origin, "Person") # {} }

\* C5: with a populated adjuster pool, after detect_staged_accidents at its
\* default min_shared_claims = 2 every tier-1 implicit staged-accident
\* instance has no finding and no suspicious node, and every tier-3 instance
\* has at least one finding.
C5_StagedTiers ==
    RanAtDefault("detect_staged_accidents", <<DefaultMinStagedClaims>>) =>
        /\ \A o \in InstancesOf("staged", "tier1") : StagedFindingsOf(o) = {} /\ ~SuspiciousIn(o)
        /\ \A o \in InstancesOf("staged", "tier3") : StagedFindingsOf(o) # {}

PhantomFindingsOf(origin) ==
    { j \in DOMAIN results.phantom_passengers :
        results.phantom_passengers[j].person_id \in MemberIds(origin, "Person") }

\* C6: with a populated adjuster pool, after detect_phantom_passengers at its
\* default min_connections = 3 every tier-1 implicit phantom-passenger
\* instance has no finding, and every tier-3 instance has at least one finding
\* and at least one suspicious node.
C6_PhantomTiers ==
    RanAtDefault("detect_phantom_passengers", <<DefaultMinConnections>>) =>
        /\ \A o \in InstancesOf("phantom", "tier1") : PhantomFindingsOf(o) = {}
        /\ \A o \in InstancesOf("phantom", "tier3") : PhantomFindingsOf(o) # {} /\ SuspiciousIn(o)

\* the primary entity of the instance is named by a finding of its detector
MillFound(origin) ==
    \E j \in DOMAIN results.medical_mills :
        results.medical_mills[j].provider_id \in MemberIds(origin, "MedicalProvider")

KickbackFound(origin) ==
    \E j \in DOMAIN results.kickbacks :
        /\ results.kickbacks[j].attorney_id \in MemberIds(origin, "Attorney")
        /\ results.kickbacks[j].bodyshop_id \in MemberIds(origin, "BodyShop")

CollusionFound(origin) ==
    \E j \in DOMAIN results.adjuster_collusion :
        /\ results.adjuster_collusion[j].adjuster_id \in MemberIds(origin, "Adjuster")
        /\ results.adjuster_collusion[j].provider_id \in MemberIds(origin, "MedicalProvider")

\* C7: with a populated adjuster pool, for the medical-mill, kickback and
\* adjuster-collusion archetypes, the primary entity of every tier-1 implicit
\* instance is absent from the findings of its detector at the default
\* thresholds, and the primary entity of every tier-3 instance is present.
C7_PrimaryEntityTiers ==
    /\ RanAtDefault("detect_medical_mills", <<DefaultMinClaims>>) =>
          /\ \A o \in InstancesOf("medical_mill", "tier1") : ~MillFound(o)
          /\ \A o \in InstancesOf("medical_mill", "tier3") : MillFound(o)
    /\ RanAtDefault("detect_bodyshop_kickbacks", <<DefaultMinSharedClaims>>) =>
          /\ \A o \in InstancesOf("kickback", "tier1") : ~KickbackFound(o)
          /\ \A o \in InstancesOf("kickback", "tier3") : KickbackFound(o)
    /\ RanAtDefault("detect_adjuster_collusion", <<DefaultMinAdjusterCollusion>>) =>
          /\ \A o \in InstancesOf("adjuster_collusion", "tier1") : ~CollusionFound(o)
          /\ \A o \in InstancesOf("adjuster_collusion", "tier3") : CollusionFound(o)

NearMissPatterns == {"high_volume_providers", "repeat_referrals", "repeat_witnesses"}

\* C8: after create_near_miss_legitimate_patterns on a populated adjuster
\* pool, run_all_detections with all default thresholds leaves no node of a
\* near-miss instance, claims included, with suspicious = true.
C8_NearMissUnflagged ==
    RanAtDefault("run_all_detections", ThresholdArgs(DefaultThresholds)) =>
        \A pattern \in NearMissPatterns :
            \A o \in InstancesOf("near_miss", pattern) : ~SuspiciousIn(o)

\* the number of non-fraud Auto claims on which both p and q appear
CoOccurrences(p, q) ==
    Cardinality({ c \in DOMAIN nodes :
        /\ "Claim" \in nodes[c].labels
        /\ nodes[c].is_fraud = "false"
        /\ nodes[c].claim_type = "Auto"
        /\ \E k \in DOMAIN edges :
              /\ edges[k].type \in {"FILED_BY", "WITNESSED_BY"}
              /\ edges[k].src = c /\ edges[k].dst = p
        /\ \E k \in DOMAIN edges :
              /\ edges[k].type \in {"FILED_BY", "WITNESSED_BY"}
              /\ edges[k].src = c /\ edges[k].dst = q })

\* pairs of distinct Persons, neither labelled fraud
PersonPairs ==
    { pq \in (DOMAIN nodes) \X (DOMAIN nodes) :
        /\ pq[1] < pq[2]
        /\ "Person" \in nodes[pq[1]].labels /\ "Person" \in nodes[pq[2]].labels
        /\ NotFraud(nodes[pq[1]]) /\ NotFraud(nodes[pq[2]]) }

\* the findings of the last staged-accident call that name the pair
StagedFindingsFor(p, q) ==
    { j \in DOMAIN results.staged_accidents :
        { results.staged_accidents[j].person1_id, results.staged_accidents[j].person2_id }
            = { nodes[p].id, nodes[q].id } }

\* C9: after detect_staged_accidents(min_shared_claims), a pair co-occurring
\* on exactly min_shared_claims claims is among the findings and a pair
\* co-occurring on exactly min_shared_claims - 1 claims is not.
C9_StagedBoundary ==
    last_op.name = "detect_staged_accidents" =>
        \A pq \in PersonPairs :
            /\ CoOccurrences(pq[1], pq[2]) = last_op.args[1] =>
                  StagedFindingsFor(pq[1], pq[2]) # {}
            /\ CoOccurrences(pq[1], pq[2]) = last_op.args[1] - 1 =>
                  StagedFindingsFor(pq[1], pq[2]) = {}

\* C10: after detect_staged_accidents(min_shared_claims), the finding for a
\* pair co-occurring on k >= min_shared_claims claims reports shared_claims = k,
\* k distinct claim ids and suspicion_score = min(100, 25 * k).
C10_StagedCountAndScore ==
    last_op.name = "detect_staged_accidents" =>
        \A pq \in PersonPairs :
            CoOccurrences(pq[1], pq[2]) >= last_op.args[1] =>
                \A j \in StagedFindingsFor(pq[1], pq[2]) :
                    /\ results.staged_accidents[j].shared_claims = CoOccurrences(pq[1], pq[2])
                    /\ Cardinality(results.staged_accidents[j].claim_ids)
                          = CoOccurrences(pq[1], pq[2])
                    /\ results.staged_accidents[j].suspicion_score
                          = Min(100, 25 * CoOccurrences(pq[1], pq[2]))

(***************************************************************************)
(* Properties of the single detectors                                      *)
(***************************************************************************)
\* the Claims with is_fraud = false that have a relationship of the type to node x
ClaimsAt(type, x) ==
    { c \in DOMAIN nodes :
        /\ "Claim" \in nodes[c].labels
        /\ nodes[c].is_fraud = "false"
        /\ \E k \in DOMAIN edges : edges[k].type = type /\ edges[k].src = c /\ edges[k].dst = x }

RECURSIVE AmountOf(_)
AmountOf(S) ==
    IF S = {} THEN 0
    ELSE LET c == CHOOSE c \in S : TRUE
         IN  ValueOf(nodes[c].claim_amount) + AmountOf(S \ {c})

NonFraudNodes(label) == { i \in DOMAIN nodes : label \in nodes[i].labels /\ NotFraud(nodes[i]) }

MillFindingsFor(m) ==
    { j \in DOMAIN results.medical_mills : results.medical_mills[j].provider_id = nodes[m].id }

\* C11: after detect_medical_mills(min_claims) with min_avg_amount at its
\* default, a non-fraud MedicalProvider with n non-fraud TREATED_AT claims is
\* reported if and only if n >= min_claims and the mean amount of those claims
\* is strictly above min_avg_amount, and its finding's claim_count is n.
C11_MillThresholds ==
    last_op.name = "detect_medical_mills" =>
        \A m \in NonFraudNodes("MedicalProvider") :
            /\ MillFindingsFor(m) # {} <=>
                  /\ Cardinality(ClaimsAt("TREATED_AT", m)) >= last_op.args[1]
                  /\ AmountOf(ClaimsAt("TREATED_AT", m))
                        > DefaultMinAvgAmount * Cardinality(ClaimsAt("TREATED_AT", m))
            /\ \A j \in MillFindingsFor(m) :
                  results.medical_mills[j].claim_count = Cardinality(ClaimsAt("TREATED_AT", m))

\* detect_medical_mills has reported a provider with exactly min_claims claims
\* and left out one with min_claims - 1 claims whose mean amount is also above
\* min_avg_amount.
C11_Witness ==
    /\ last_op.name = "detect_medical_mills"
    /\ \E m \in NonFraudNodes("MedicalProvider") :
          /\ Cardinality(ClaimsAt("TREATED_AT", m)) = last_op.args[1]
          /\ MillFindingsFor(m) # {}
    /\ \E m \in NonFraudNodes("MedicalProvider") :
          /\ Cardinality(ClaimsAt("TREATED_AT", m)) = last_op.args[1] - 1
          /\ AmountOf(ClaimsAt("TREATED_AT", m))
                > DefaultMinAvgAmount * Cardinality(ClaimsAt("TREATED_AT", m))
          /\ MillFindingsFor(m) = {}

\* the non-fraud claims linked to both members of the pair (a, b)
SharedClaims(t1, a, t2, b) == ClaimsAt(t1, a) \cap ClaimsAt(t2, b)

PairFindingsFor(findings, fa, a, fb, b) ==
    { j \in DOMAIN findings : findings[j][fa] = nodes[a].id /\ findings[j][fb] = nodes[b].id }

SuspiciousRels(a, b) ==
    { k \in DOMAIN edges :
        edges[k].type = "SUSPICIOUS_RELATIONSHIP" /\ edges[k].src = a /\ edges[k].dst = b }

\* what C12 says of one pair detector after its call on an unflagged graph
PairThreshold(name, findings, t1, l1, fa, t2, l2, fb) ==
    last_op.name = name =>
        /\ \A a \in NonFraudNodes(l1), b \in NonFraudNodes(l2) :
              /\ PairFindingsFor(findings, fa, a, fb, b) # {} <=>
                    Cardinality(SharedClaims(t1, a, t2, b)) >= last_op.args[1]
              /\ PairFindingsFor(findings, fa, a, fb, b) = {} => SuspiciousRels(a, b) = {}
        /\ \A i \in DOMAIN nodes :
              nodes[i].suspicious = "true" =>
                  \E a \in NonFraudNodes(l1), b \in NonFraudNodes(l2) :
                      /\ PairFindingsFor(findings, fa, a, fb, b) # {}
                      /\ i \in {a, b} \cup SharedClaims(t1, a, t2, b)

\* C12: detect_bodyshop_kickbacks and detect_adjuster_collusion report a
\* non-fraud pair if and only if the non-fraud claims linked to both members
\* number at least min_shared_claims; a pair below the threshold gets no
\* finding and no SUSPICIOUS_RELATIONSHIP edge, and nothing is flagged but the
\* members and shared claims of reported pairs.
C12_PairThresholds ==
    /\ PairThreshold("detect_bodyshop_kickbacks", results.kickbacks,
                     "REPRESENTED_BY", "Attorney", "attorney_id",
                     "REPAIRED_AT", "BodyShop", "bodyshop_id")
    /\ PairThreshold("detect_adjuster_collusion", results.adjuster_collusion,
                     "HANDLED_BY", "Adjuster", "adjuster_id",
                     "TREATED_AT", "MedicalProvider", "provider_id")

\* detect_bodyshop_kickbacks at min_shared_claims = 3 has reported the pair
\* sharing 3 claims and left the pair sharing 2 claims without finding, flag
\* on its attorney or SUSPICIOUS_RELATIONSHIP edge.
C12_Witness ==
    /\ last_op = [ name |-> "detect_bodyshop_kickbacks", args |-> <<DefaultMinSharedClaims>> ]
    /\ Len(results.kickbacks) = 1
    /\ \E a \in NonFraudNodes("Attorney"), b \in NonFraudNodes("BodyShop") :
          /\ Cardinality(SharedClaims("REPRESENTED_BY", a, "REPAIRED_AT", b))
                = DefaultMinSharedClaims - 1
          /\ nodes[a].suspicious # "true"
          /\ SuspiciousRels(a, b) = {}

(***************************************************************************)
(* Scores                                                                  *)
(***************************************************************************)
\* the count a detector's score is computed from
StructuralCount(kind, f) ==
    IF kind = "medical_mills" THEN f.claim_count
    ELSE IF kind = "phantom_passengers" THEN f.connection_count
    ELSE f.shared_claims

\* mills are compared at equal average amount
Comparable(kind, f, h) == kind = "medical_mills" => f.avg_amount = h.avg_amount

\* C13: every suspicion_score of a finding, and every suspicion_score stored
\* on a node, is an integer from 0 to 100; and of two findings of one
\* detector the one with the larger structural count (for mills, at equal
\* average amount) never has the lower score.
C13_ScoresBounded ==
    /\ \A kind \in DOMAIN results : \A j \in DOMAIN results[kind] :
          results[kind][j].suspicion_score \in 0..100
    /\ \A i \in DOMAIN nodes : nodes[i].suspicion_score \subseteq 0..100
    /\ \A kind \in DOMAIN results : \A j, k \in DOMAIN results[kind] :
          /\ StructuralCount(kind, results[kind][j]) > StructuralCount(kind, results[kind][k])
          /\ Comparable(kind, results[kind][j], results[kind][k])
          => results[kind][j].suspicion_score >= results[kind][k].suspicion_score

\* detect_adjuster_collusion has reported two pairs, the larger one with a
\* count whose weighted value exceeds the cap and scored at the cap, the
\* smaller one scored below it; an adjuster carries the capped score and a
\* claim its truncated four fifths.
C13_Witness ==
    /\ last_op.name = "detect_adjuster_collusion"
    /\ \E j, k \in DOMAIN results.adjuster_collusion :
          /\ results.adjuster_collusion[j].shared_claims * CollusionWeight > 100
          /\ results.adjuster_collusion[j].suspicion_score = 100
          /\ results.adjuster_collusion[k].shared_claims
                < results.adjuster_collusion[j].shared_claims
          /\ results.adjuster_collusion[k].suspicion_score < 100
    /\ \E i \in DOMAIN nodes :
          "Adjuster" \in nodes[i].labels /\ nodes[i].suspicion_score = {100}
    /\ \E i \in DOMAIN nodes :
          "Claim" \in nodes[i].labels /\ nodes[i].suspicion_score = {80}

(***************************************************************************)
(* Claim generation on empty pools                                         *)
(***************************************************************************)
\* the operations that create claims handled by an adjuster of the pool
ClaimGenerators ==
    { "create_legitimate_claims", "create_medical_mill", "create_bodyshop_kickback",
      "create_staged_accident", "create_phantom_passenger", "create_adjuster_collusion",
      "create_tiered_implicit_fraud_patterns", "create_near_miss_legitimate_patterns" }

Counters ==
    << claim_counter, person_counter, provider_counter, attorney_counter,
       bodyshop_counter, adjuster_counter >>

Pools == << adjuster_pool, medical_provider_pool, attorney_pool, bodyshop_pool >>

\* C14: a claim-generating operation called while the adjuster pool is empty
\* fails with the error naming the adjuster pool, creates no node and no
\* relationship, and advances no id counter.
C14_EmptyAdjusterPoolFails ==
    [][ (adjuster_pool = <<>> /\ last_op'.name \in ClaimGenerators) =>
            /\ error' = AdjusterPoolEmpty
            /\ nodes' = nodes
            /\ edges' = edges
            /\ Counters' = Counters ]_vars

\* C15: create_legitimate_claims called with any number of claims while the
\* adjuster pool or the medical-provider pool is empty raises the error
\* naming an empty pool, and leaves the graph, the six counters, the pools
\* and generation_stats as they were.
C15_LegitimatePoolCheck ==
    [][ ( /\ last_op'.name = "create_legitimate_claims"
          /\ ops' = ops + 1
          /\ (adjuster_pool = <<>> \/ medical_provider_pool = <<>>) ) =>
            /\ \/ adjuster_pool = <<>> /\ error' = AdjusterPoolEmpty
               \/ medical_provider_pool = <<>> /\ error' = MedicalPoolEmpty
            /\ nodes' = nodes
            /\ edges' = edges
            /\ Counters' = Counters
            /\ Pools' = Pools
            /\ generation_stats' = generation_stats ]_vars

\* create_legitimate_claims(0) has just failed on the empty medical-provider
\* pool of a generator whose adjuster pool is populated.
C15_Witness ==
    /\ last_op = [ name |-> "create_legitimate_claims", args |-> <<0>> ]
    /\ error = MedicalPoolEmpty
    /\ adjuster_pool # <<>>
    /\ medical_provider_pool = <<>>
    /\ nodes # <<>>

\* C16: after clear_database the graph holds no node and no relationship and
\* the six id counters of the generator are zero.
C16_ClearResetsCounters ==
    last_op.name = "clear_database" =>
        /\ nodes = <<>>
        /\ edges = <<>>
        /\ Counters = << 0, 0, 0, 0, 0, 0 >>

(***************************************************************************)
(* The legacy entry point                                                  *)
(***************************************************************************)
\* the count the tiered generator recorded for one archetype and tier
TierCount(archetype, tier) == generation_stats.implicit_fraud[tier][archetype]

\* C17: after create_implicit_fraud_patterns, every archetype with a flat
\* count c > 0 was generated with tier counts that are each at least 1 and add
\* up to c, and every archetype with c = 0 with tier counts (0, 0, 0).
C17_LegacyTierCounts ==
    (last_op.name = "create_implicit_fraud_patterns" /\ error = "none") =>
        \A a \in DOMAIN last_op.args[1] :
            IF last_op.args[1][a] > 0
            THEN /\ TierCount(a, "tier1") >= 1
                 /\ TierCount(a, "tier2") >= 1
                 /\ TierCount(a, "tier3") >= 1
                 /\ TierCount(a, "tier1") + TierCount(a, "tier2") + TierCount(a, "tier3")
                        = last_op.args[1][a]
            ELSE /\ TierCount(a, "tier1") = 0
                 /\ TierCount(a, "tier2") = 0
                 /\ TierCount(a, "tier3") = 0

(***************************************************************************)
(* Scores of the claims of a finding                                       *)
(***************************************************************************)
\* the results field each detector fills
DetectorResults ==
    [ detect_medical_mills |-> "medical_mills",
      detect_bodyshop_kickbacks |-> "kickbacks",
      detect_staged_accidents |-> "staged_accidents",
      detect_phantom_passengers |-> "phantom_passengers",
      detect_adjuster_collusion |-> "adjuster_collusion" ]

\* no node carries a suspicion field
Unflagged == \A i \in DOMAIN nodes : SuspicionFields(nodes[i]) = << "null", "null", {} >>

\* a single detector has just run on a graph that carried no flag
DetectorStep ==
    /\ Unflagged
    /\ ops' = ops + 1
    /\ last_op'.name \in DOMAIN DetectorResults

\* the ids listed in claim_ids of a finding of the given results field
ListedIn(kind, f) ==
    IF kind = "staged_accidents" THEN f.claim_ids ELSE Range(f.claim_ids)

\* the positions of the findings that list the claim id
FindingsListing(kind, findings, id) ==
    { j \in DOMAIN findings : id \in ListedIn(kind, findings[j]) }

\* the finding whose score a listed claim is left with: the first one listing
\* it for staged accidents, the last one for the other detectors
Deciding(kind, findings, id) ==
    LET js == FindingsListing(kind, findings, id)
    IN  IF kind = "staged_accidents"
        THEN CHOOSE j \in js : \A k \in js : j <= k
        ELSE CHOOSE j \in js : \A k \in js : j >= k

\* C18 as stated: after a single detector on an unflagged graph, every Claim
\* listed in claim_ids of a finding is suspicious and carries the truncated
\* 0.8 of the score of that very finding, whichever findings list it.
C18_ClaimScoreOfEveryFinding ==
    [][ DetectorStep =>
          \A j \in DOMAIN results'[DetectorResults[last_op'.name]] :
            \A i \in DOMAIN nodes' :
              ( /\ "Claim" \in nodes'[i].labels
                /\ nodes'[i].id \in ListedIn(DetectorResults[last_op'.name],
                                             results'[DetectorResults[last_op'.name]][j]) )
              => /\ nodes'[i].suspicious = "true"
                 /\ nodes'[i].suspicion_score =
                      { ClaimScore(results'[DetectorResults[last_op'.name]][j].suspicion_score) }
      ]_vars

\* C18, amended: after a single detector on an unflagged graph, every Claim
\* listed in claim_ids of a finding is suspicious and carries the truncated
\* 0.8 of the score of one finding listing it: of the first such finding for
\* detect_staged_accidents, of the last such finding for the other detectors.
C18_ClaimScoreOfDecidingFinding ==
    [][ DetectorStep =>
          \A j \in DOMAIN results'[DetectorResults[last_op'.name]] :
            \A i \in DOMAIN nodes' :
              ( /\ "Claim" \in nodes'[i].labels
                /\ nodes'[i].id \in ListedIn(DetectorResults[last_op'.name],
                                             results'[DetectorResults[last_op'.name]][j]) )
              => /\ nodes'[i].suspicious = "true"
                 /\ nodes'[i].suspicion_score =
                      { ClaimScore(results'[DetectorResults[last_op'.name]]
                                     [Deciding(DetectorResults[last_op'.name],
                                               results'[DetectorResults[last_op'.name]],
                                               nodes'[i].id)].suspicion_score) }
      ]_vars

\* detect_staged_accidents, the first operation on its input, has returned two
\* findings with different scores that list the same claim, and the claim
\* carries the truncated 0.8 of the score of the first of them.
C18_Witness ==
    /\ ops = 1
    /\ last_op.name = "detect_staged_accidents"
    /\ \E j, k \in DOMAIN results.staged_accidents :
          /\ j < k
          /\ results.staged_accidents[j].suspicion_score
                # results.staged_accidents[k].suspicion_score
          /\ \E i \in DOMAIN nodes :
                /\ "Claim" \in nodes[i].labels
                /\ nodes[i].id \in results.staged_accidents[j].claim_ids
                                     \cap results.staged_accidents[k].claim_ids
                /\ FindingsListing("staged_accidents", results.staged_accidents, nodes[i].id)
                      \subseteq j..Len(results.staged_accidents)
                /\ nodes[i].suspicion_score =
                      { ClaimScore(results.staged_accidents[j].suspicion_score) }

(***************************************************************************)
(* Nodes matched by several detectors                                      *)
(***************************************************************************)
\* the results fields in the order run_all_detections fills them
DetectorOrder ==
    << "medical_mills", "kickbacks", "staged_accidents", "phantom_passengers",
       "adjuster_collusion" >>

\* the suspicion_type each detector writes
WrittenType ==
    [ medical_mills |-> "Medical Mill", kickbacks |-> "Kickback Scheme",
      staged_accidents |-> "Staged Accident", phantom_passengers |-> "Phantom Passenger",
      adjuster_collusion |-> "Adjuster-Provider Collusion" ]

\* the ids of the entities a finding names
MembersOf(kind, f) ==
    CASE kind = "medical_mills" -> { f.provider_id }
      [] kind = "kickbacks" -> { f.attorney_id, f.bodyshop_id }
      [] kind = "staged_accidents" -> { f.person1_id, f.person2_id }
      [] kind = "phantom_passengers" -> { f.person_id }
      [] kind = "adjuster_collusion" -> { f.adjuster_id, f.provider_id }

\* the positions of the findings of one detector that match node n: as a
\* listed claim if n is a Claim, as a named entity otherwise
MatchesOf(kind, n) ==
    IF "Claim" \in n.labels
    THEN FindingsListing(kind, results[kind], n.id)
    ELSE { j \in DOMAIN results[kind] : n.id \in MembersOf(kind, results[kind][j]) }

\* the detectors, by position in the sequence, with a finding matching n
MatchingDetectors(n) == { k \in DOMAIN DetectorOrder : MatchesOf(DetectorOrder[k], n) # {} }

\* the score detector kind leaves on a node it matches
WrittenScore(kind, n) ==
    IF "Claim" \in n.labels
    THEN ClaimScore(results[kind][Deciding(kind, results[kind], n.id)].suspicion_score)
    ELSE results[kind][CHOOSE j \in MatchesOf(kind, n) :
                         \A k \in MatchesOf(kind, n) : j >= k].suspicion_score

LastMatching(n) == CHOOSE k \in MatchingDetectors(n) : \A l \in MatchingDetectors(n) : k >= l

\* C19: after run_all_detections, a node that is not labelled fraud and is
\* matched by findings of one or several detectors carries the
\* suspicion_type and the suspicion_score written by the last of these
\* detectors in the order mill, kickback, staged, phantom, collusion.
C19_LastDetectorWins ==
    last_op.name = "run_all_detections" =>
        \A i \in DOMAIN nodes :
            (NotFraud(nodes[i]) /\ MatchingDetectors(nodes[i]) # {}) =>
                /\ nodes[i].suspicious = "true"
                /\ nodes[i].suspicion_type = WrittenType[DetectorOrder[LastMatching(nodes[i])]]
                /\ nodes[i].suspicion_score =
                      { WrittenScore(DetectorOrder[LastMatching(nodes[i])], nodes[i]) }

\* run_all_detections has returned a mill finding and a collusion finding with
\* different scores for the same provider, which carries type and score of the
\* collusion finding, and some claim listed by both carries the collusion type.
C19_Witness ==
    /\ last_op.name = "run_all_detections"
    /\ \E i \in DOMAIN nodes :
          /\ "MedicalProvider" \in nodes[i].labels
          /\ {1, 5} \subseteq MatchingDetectors(nodes[i])
          /\ WrittenScore("medical_mills", nodes[i]) # WrittenScore("adjuster_collusion", nodes[i])
          /\ nodes[i].suspicion_type = "Adjuster-Provider Collusion"
          /\ nodes[i].suspicion_score = { WrittenScore("adjuster_collusion", nodes[i]) }
    /\ \E i \in DOMAIN nodes :
          /\ "Claim" \in nodes[i].labels
          /\ {1, 5} \subseteq MatchingDetectors(nodes[i])
          /\ nodes[i].suspicion_type = "Adjuster-Provider Collusion"

(***************************************************************************)
(* Findings and the marks of earlier detections                            *)
(***************************************************************************)
\* the finding list of the named detector on graph g
FindingsOn(g, name, args) ==
    CASE name = "detect_medical_mills" -> MillFindings(g, args[1], DefaultMinAvgAmount)
      [] name = "detect_bodyshop_kickbacks" -> KickbackFindings(g, args[1])
      [] name = "detect_staged_accidents" -> StagedFindings(g, args[1])
      [] name = "detect_phantom_passengers" -> PhantomFindings(g, args[1])
      [] name = "detect_adjuster_collusion" -> CollusionFindings(g, args[1])

\* C20: whatever marks earlier operations left on the graph (suspicion
\* fields, degree_centrality, SUSPICIOUS_RELATIONSHIP edges), a detector
\* returns the finding list it returns on the same graph with these marks
\* cleared; so the list of each detector is the same in every order of calls.
C20_FindingsIgnoreMarks ==
    [][ (ops' = ops + 1 /\ last_op'.name \in DOMAIN DetectorResults) =>
          results'[DetectorResults[last_op'.name]]
            = FindingsOn(ClearPreviousDetections(Graph).g, last_op'.name, last_op'.args) ]_vars

\* the third operation on an input is a detector called again with the
\* thresholds of the call before it: it ran on the graph that call had marked,
\* SUSPICIOUS_RELATIONSHIP edges included, and returned findings.
C20_Witness ==
    /\ ops = MaxOps
    /\ repeated
    /\ last_op.name \in DOMAIN DetectorResults
    /\ results[DetectorResults[last_op.name]] # <<>>
    /\ \E k \in DOMAIN edges : edges[k].type = "SUSPICIOUS_RELATIONSHIP"

(***************************************************************************)
(* Completeness of the staged-accident findings                            *)
(***************************************************************************)
\* C21: detect_staged_accidents(min_shared_claims) returns exactly one finding
\* for every unordered pair of distinct Persons, neither labelled fraud, who
\* co-occur on at least min_shared_claims non-fraud Auto claims, however many
\* such pairs the graph holds.
C21_StagedPairsOnce ==
    last_op.name = "detect_staged_accidents" =>
        \A pq \in PersonPairs :
            CoOccurrences(pq[1], pq[2]) >= last_op.args[1] =>
                Cardinality(StagedFindingsFor(pq[1], pq[2])) = 1

(***************************************************************************)
(* Labelled fraud is never reported                                        *)
(***************************************************************************)
\* the nodes carrying one of the ids
NodesWithId(ids) == { i \in DOMAIN nodes : nodes[i].id \in ids }

\* every KNOWS edge starts at a phantom of an explicit phantom-passenger ring
KnowsOnlyInRings ==
    \A k \in DOMAIN edges :
        edges[k].type = "KNOWS" =>
            /\ nodes[edges[k].src].is_fraud = "true"
            /\ nodes[edges[k].src].fraud_type = "Phantom Passenger"

\* C22: in the findings of every detector no matched entity is a node whose
\* is_fraud is true and no listed claim is a Claim whose is_fraud is true; and
\* detect_phantom_passengers returns no finding on a graph whose KNOWS edges
\* all belong to explicit phantom-passenger rings.
C22_LabelledNeverReported ==
    /\ \A kind \in DOMAIN results : \A j \in DOMAIN results[kind] :
          /\ \A i \in NodesWithId(MembersOf(kind, results[kind][j])) :
                nodes[i].is_fraud # "true"
          /\ \A i \in NodesWithId(ListedIn(kind, results[kind][j])) :
                nodes[i].is_fraud # "true"
    /\ (last_op.name = "detect_phantom_passengers" /\ KnowsOnlyInRings) =>
          results.phantom_passengers = <<>>

\* detect_phantom_passengers has just run on the graph create_phantom_passenger
\* generated, KNOWS edges included, and returned nothing.
C22_Witness ==
    /\ last_op.name = "detect_phantom_passengers"
    /\ generation_stats.explicit_fraud.phantom > 0
    /\ \E k \in DOMAIN edges : edges[k].type = "KNOWS"
    /\ KnowsOnlyInRings
    /\ results.phantom_passengers = <<>>

(***************************************************************************)
(* SUSPICIOUS_RELATIONSHIP edges after a run                               *)
(***************************************************************************)
\* the pair findings of the last run: kind, position, and the two id fields
PairFindings ==
    { <<"kickbacks", j, "attorney_id", "bodyshop_id">> : j \in DOMAIN results.kickbacks }
    \cup
    { <<"adjuster_collusion", j, "adjuster_id", "provider_id">> :
        j \in DOMAIN results.adjuster_collusion }

SuspiciousEdges == { k \in DOMAIN edges : edges[k].type = "SUSPICIOUS_RELATIONSHIP" }

\* edge k joins the pair of finding pf and carries its shared_claims
EdgeOf(k, pf) ==
    /\ nodes[edges[k].src].id = results[pf[1]][pf[2]][pf[3]]
    /\ nodes[edges[k].dst].id = results[pf[1]][pf[2]][pf[4]]
    /\ edges[k].shared_claims = { results[pf[1]][pf[2]].shared_claims }

\* C23: after run_all_detections every SUSPICIOUS_RELATIONSHIP edge joins the
\* pair of a kickback or collusion finding of this run and carries its
\* shared_claims, every such finding has its edge, and no ordered pair of
\* nodes has two such edges.
C23_SuspiciousEdgesAreFindings ==
    last_op.name = "run_all_detections" =>
        /\ \A k \in SuspiciousEdges : \E pf \in PairFindings : EdgeOf(k, pf)
        /\ \A pf \in PairFindings : \E k \in SuspiciousEdges : EdgeOf(k, pf)
        /\ \A k, l \in SuspiciousEdges :
              (edges[k].src = edges[l].src /\ edges[k].dst = edges[l].dst) => k = l

\* run_all_detections has run after another detection operation and left one
\* edge for a kickback finding and one for a collusion finding.
C23_Witness ==
    /\ last_op.name = "run_all_detections"
    /\ ops >= 2
    /\ results.kickbacks # <<>>
    /\ results.adjuster_collusion # <<>>
    /\ Cardinality(SuspiciousEdges) = 2

(***************************************************************************)
(* What the detection engine leaves alone                                  *)
(***************************************************************************)
\* a node without the four properties the detection engine writes
Stored4(n) ==
    [ n EXCEPT !.suspicious = "null", !.suspicion_type = "null",
               !.suspicion_score = {}, !.degree_centrality = {} ]

\* the relationships of every type but SUSPICIOUS_RELATIONSHIP, in store order
OtherRels(es) == SelectSeq(es, LAMBDA e : e.type # "SUSPICIOUS_RELATIONSHIP")

\* C24: an operation of the detection engine creates and deletes no node,
\* adds and deletes no relationship other than SUSPICIOUS_RELATIONSHIP, and
\* changes no node property other than suspicious, suspicion_type,
\* suspicion_score and degree_centrality.
C24_DetectionFrame ==
    [][ ops' = ops + 1 =>
          /\ DOMAIN nodes' = DOMAIN nodes
          /\ \A i \in DOMAIN nodes : Stored4(nodes'[i]) = Stored4(nodes[i])
          /\ OtherRels(edges') = OtherRels(edges) ]_vars

\* run_all_detections, the last of MaxOps operations on a graph holding a
\* labelled fraud node, has flagged nodes and left a SUSPICIOUS_RELATIONSHIP
\* edge next to the stored relationships.
C24_Witness ==
    /\ ops = MaxOps
    /\ last_op.name = "run_all_detections"
    /\ \E i \in DOMAIN nodes : nodes[i].suspicious = "true"
    /\ \E i \in DOMAIN nodes : nodes[i].is_fraud = "true"
    /\ SuspiciousEdges # {}
    /\ OtherRels(edges) # <<>>

(***************************************************************************)
(* run_all_detections statement by statement                               *)
(*                                                                         *)
(* One step per statement of the body of run_all_detections, on an input   *)
(* graph that one detector call at most has flagged before.  last_op keeps *)
(* the call, its thresholds and the stage that completed last; results is  *)
(* the dictionary the call fills.                                          *)
(***************************************************************************)
MaxRuns == 2

\* Faulty variant: the metrics are computed before the collusion detector
StageAfterMetricsEarly(stage) ==
    CASE stage = "CLEAR" -> "mill"
      [] stage = "mill" -> "kickback"
      [] stage = "kickback" -> "staged"
      [] stage = "staged" -> "phantom"
      [] stage = "phantom" -> "METRICS"
      [] stage = "METRICS" -> "collusion"
      [] stage = "collusion" -> "SUMMARY"

\* the statement that follows each statement of the body
StageAfter(stage) ==
    CASE stage = "CLEAR" -> "mill"
      [] stage = "mill" -> "kickback"
      [] stage = "kickback" -> "staged"
      [] stage = "staged" -> "phantom"
      [] stage = "phantom" -> "collusion"
      [] stage = "collusion" -> "METRICS"
      [] stage = "METRICS" -> "SUMMARY"

Running == last_op.name = "run_all_detections" /\ last_op.stage # "SUMMARY"
RunsDone == IF last_op.name = "run_all_detections" THEN last_op.run ELSE 0
RunThresholdsOf(args) == CHOOSE th \in RunThresholds : ThresholdArgs(th) = args

\* what one statement does to the graph, the dictionary and the counts
RunStage(stage, g, th, res, counts) ==
    LET Cleared(c) == [ g |-> c.g, results |-> NoResults, counts |-> c.counts ]
        Mills(d) == [ g |-> d.g, results |-> [ res EXCEPT !.medical_mills = d.findings ], counts |-> counts ]
        Kickbacks(d) == [ g |-> d.g, results |-> [ res EXCEPT !.kickbacks = d.findings ], counts |-> counts ]
        Staged(d) == [ g |-> d.g, results |-> [ res EXCEPT !.staged_accidents = d.findings ], counts |-> counts ]
        Phantoms(d) == [ g |-> d.g, results |-> [ res EXCEPT !.phantom_passengers = d.findings ], counts |-> counts ]
        Collusion(d) == [ g |-> d.g, results |-> [ res EXCEPT !.adjuster_collusion = d.findings ], counts |-> counts ]
    IN  CASE stage = "CLEAR" -> Cleared(ClearPreviousDetections(g))
          [] stage = "mill" -> Mills(DetectMedicalMills(g, th.min_claims, DefaultMinAvgAmount))
          [] stage = "kickback" -> Kickbacks(DetectBodyshopKickbacks(g, th.min_shared_claims))
          [] stage = "staged" -> Staged(DetectStagedAccidents(g, th.min_staged_claims))
          [] stage = "phantom" -> Phantoms(DetectPhantomPassengers(g, th.min_connections))
          [] stage = "collusion" -> Collusion(DetectAdjusterCollusion(g, th.min_adjuster_collusion))
          [] stage = "METRICS" -> [ g |-> CalculateNetworkMetrics(g), results |-> res, counts |-> counts ]
          [] stage = "SUMMARY" -> [ g |-> g, results |-> res, counts |-> counts ]

StageDone(stage, th, run) ==
    \E r \in { RunStage(stage, Graph, th, results, cleared) } :
        /\ nodes' = r.g.nodes
        /\ edges' = r.g.edges
        /\ results' = r.results
        /\ cleared' = r.counts
        /\ last_op' = [ name |-> "run_all_detections", args |-> ThresholdArgs(th),
                        stage |-> stage, run |-> run ]
        /\ ops' = ops + 1
        /\ repeated' = FALSE
        /\ error' = "none"
        /\ UNCHANGED genVars

\* the call starts: self.clear_previous_detections()
RunStarts ==
    /\ ~Running
    /\ RunsDone < MaxRuns
    /\ \E th \in RunThresholds : StageDone("CLEAR", th, RunsDone + 1)

\* the next statement of the call in progress
RunProceeds ==
    /\ Running
    /\ StageDone(StageAfter(last_op.stage), RunThresholdsOf(last_op.args), last_op.run)

NextStages ==
    \/ Fresh /\ DetectMillsOp
    \/ Fresh /\ DetectKickbacksOp
    \/ RunStarts
    \/ RunProceeds

SpecStages == Init /\ [][NextStages]_vars

StageOrder ==
    << "CLEAR", "mill", "kickback", "staged", "phantom", "collusion", "METRICS", "SUMMARY" >>
StageNo(stage) == CHOOSE k \in DOMAIN StageOrder : StageOrder[k] = stage
Detectors == { "mill", "kickback", "staged", "phantom", "collusion" }
Marked(ns) == { i \in DOMAIN ns : ns[i].suspicious = "true" }
Central(ns) == { i \in DOMAIN ns : ns[i].degree_centrality # {} }

\* the stages of a call follow each other in the order of StageOrder, one
\* step each, and flags, SUSPICIOUS_RELATIONSHIP edges and findings are
\* written by the detector stages only, degree_centrality by METRICS only
StagesStep ==
    last_op'.name = "run_all_detections" =>
        /\ IF Running
           THEN /\ StageNo(last_op'.stage) = StageNo(last_op.stage) + 1
                /\ last_op'.run = last_op.run /\ last_op'.args = last_op.args
           ELSE last_op'.stage = "CLEAR" /\ last_op'.run = RunsDone + 1
        /\ last_op'.stage = "CLEAR" =>
              Marked(nodes') = {} /\ Central(nodes') = {} /\ SuspiciousEdges' = {}
        /\ last_op'.stage \notin Detectors \cup {"CLEAR"} =>
              /\ Marked(nodes') = Marked(nodes)
              /\ SuspiciousEdges' = SuspiciousEdges
              /\ results' = results
        /\ last_op'.stage \notin {"METRICS", "CLEAR"} => Central(nodes') = Central(nodes)
        /\ last_op'.stage # "CLEAR" => Marked(nodes) \subseteq Marked(nodes')

\* C25: within every run_all_detections the stages execute once each in the
\* order CLEAR, mill, kickback, staged, phantom, collusion, METRICS, SUMMARY;
\* no detector writes a flag before the clear completed; the metrics and the
\* summary run after the five detectors.
C25_StagesInOrder == [][StagesStep]_vars

\* the second call returned, with findings and flags, after a first call or a
\* single detector had flagged nodes
C25_Witness ==
    /\ last_op.name = "run_all_detections"
    /\ last_op.stage = "SUMMARY"
    /\ last_op.run = MaxRuns
    /\ results.kickbacks # <<>>
    /\ Marked(nodes) # {}
    /\ SuspiciousEdges # {}

(***************************************************************************)
(* Degree centrality after a run                                           *)
(*                                                                         *)
(* run_all_detections, after the metrics alone or after another run, on    *)
(* graphs where one claimant files Medical claims treated at the second    *)
(* provider, Medical claims treated at the first, and Auto claims an       *)
(* attorney represents without a body shop: an entity serving five claims  *)
(* has degree 5, and 6 with a SUSPICIOUS_RELATIONSHIP edge.                *)
(***************************************************************************)
MaxCentral == 6

CentralGraphs ==
    { BuildGraph(DetectEntities(fraud),
                 Copies(MillShapes[4], a) \o Copies(MillShapes[2], b)
                     \o Copies(ReferralShapes[4], c), <<>>) :
        fraud \in { {}, {ProviderId(1)}, {AttorneyId(0)} },
        a \in {0, MaxCentral}, b \in 0..(MaxCentral - 1), c \in 0..MaxCentral }

InitCentral ==
    /\ \E g \in CentralGraphs : nodes = g.nodes /\ edges = g.edges
    /\ GeneratorInit
    /\ DetectorInit

NextCentral ==
    \/ Fresh /\ MetricsOp
    \/ ops < MaxRuns /\ RunAllOp

SpecCentral == InitCentral /\ [][NextCentral]_vars

\* relationships that start or end at node i, of every type
TotalDegree(i) ==
    Cardinality({ k \in DOMAIN edges : edges[k].src = i })
        + Cardinality({ k \in DOMAIN edges : edges[k].dst = i /\ edges[k].src # i })

\* C26: after run_all_detections a node carries degree_centrality iff its
\* is_fraud is not true and its total degree, the SUSPICIOUS_RELATIONSHIP edges
\* of the run included, is greater than 5, and the value is that degree.
C26_CentralityIsDegree ==
    last_op.name = "run_all_detections" =>
        \A i \in DOMAIN nodes :
            nodes[i].degree_centrality =
                IF nodes[i].is_fraud # "true" /\ TotalDegree(i) > 5
                THEN { TotalDegree(i) } ELSE {}

\* a run after which one node has degree 6 thanks to a SUSPICIOUS_RELATIONSHIP
\* edge and carries 6, one non-fraud node has degree exactly 5 and carries
\* nothing, and a node labelled fraud has degree above 5 and carries nothing
C26_Witness ==
    /\ last_op.name = "run_all_detections"
    /\ \E i \in DOMAIN nodes :
          /\ nodes[i].degree_centrality = {6}
          /\ \E k \in SuspiciousEdges : edges[k].src = i \/ edges[k].dst = i
    /\ \E i \in DOMAIN nodes :
          /\ nodes[i].is_fraud # "true" /\ TotalDegree(i) = 5
          /\ nodes[i].degree_centrality = {}
    /\ \E i \in DOMAIN nodes :
          /\ nodes[i].is_fraud = "true" /\ TotalDegree(i) > 5
          /\ nodes[i].degree_centrality = {}

(***************************************************************************)
(* Who creates service entities                                            *)
(***************************************************************************)
ServiceLabels == { "Adjuster", "MedicalProvider", "Attorney", "BodyShop" }

PoolsBuilt ==
    /\ adjuster_pool # <<>>
    /\ medical_provider_pool # <<>>
    /\ attorney_pool # <<>>
    /\ bodyshop_pool # <<>>

PoolReaders ==
    { "create_legitimate_claims", "create_tiered_implicit_fraud_patterns",
      "create_near_miss_legitimate_patterns" }

\* C27: once the pool builders have run, legitimate-claim, tiered implicit and
\* near-miss generation create no Adjuster, MedicalProvider, Attorney or
\* BodyShop node: they only reference the pooled entities.
C27_OnlyRingsCreateEntities ==
    [][ (PoolsBuilt /\ ops' = ops + 1 /\ last_op'.name \in PoolReaders) =>
          \A i \in DOMAIN nodes' \ DOMAIN nodes :
              nodes'[i].labels \cap ServiceLabels = {} ]_vars

(***************************************************************************)
(* No flag outlives the run that follows                                   *)
(***************************************************************************)
\* C28: after run_all_detections every node with suspicious = true is a named
\* entity of a returned finding or a Claim listed in claim_ids of one, also
\* when an earlier run at lower thresholds or a single detector flagged more.
C28_NoStaleFlags ==
    last_op.name = "run_all_detections" =>
        \A i \in Marked(nodes) : MatchingDetectors(nodes[i]) # {}

\* a run whose clear step removed more flags than the run itself has set
C28_Witness ==
    /\ last_op.name = "run_all_detections"
    /\ cleared.flagged > Cardinality(Marked(nodes))
    /\ Marked(nodes) # {}

(***************************************************************************)
(* The pools and the store                                                 *)
(***************************************************************************)
PooledIds(as, ms, ts, bs) == Range(as) \cup Range(ms) \cup Range(ts) \cup Range(bs)

StoredIds(ns) == { ns[i].id : i \in DOMAIN ns }

\* the relationships of one type that start at node i
RelsFrom(es, type, i) == { k \in DOMAIN es : es[k].type = type /\ es[k].src = i }

\* C29: after any sequence of operations on one generator, clear_database
\* followed by new generation included, every id in the four pools is the id
\* of an existing node, so create_legitimate_claims(n) with non-empty pools
\* adds exactly n Claim nodes, each with one FILED_BY and one HANDLED_BY edge.
C29_PoolsAreStored ==
    [][ ops' = ops + 1 =>
          /\ PooledIds(adjuster_pool, medical_provider_pool, attorney_pool, bodyshop_pool)'
                \subseteq StoredIds(nodes')
          /\ (PoolsBuilt /\ last_op'.name = "create_legitimate_claims") =>
                /\ Cardinality({ i \in DOMAIN nodes' \ DOMAIN nodes :
                                    "Claim" \in nodes'[i].labels }) = last_op'.args[1]
                /\ \A i \in DOMAIN nodes' \ DOMAIN nodes :
                      "Claim" \in nodes'[i].labels =>
                          /\ Cardinality(RelsFrom(edges', "FILED_BY", i)) = 1
                          /\ Cardinality(RelsFrom(edges', "HANDLED_BY", i)) = 1 ]_vars

(***************************************************************************)
(* Employee ids of the adjusters                                           *)
(***************************************************************************)
\* the adjusters whose employee_id is formatted from adjuster_counter
CounterAdjusters ==
    { i \in DOMAIN nodes :
        /\ "Adjuster" \in nodes[i].labels
        /\ nodes[i].employee_id # <<>>
        /\ nodes[i].employee_id[1] = "EMP" }

\* C30: after any sequence of create_adjuster_pool calls and tiered implicit
\* adjuster-collusion builder calls, the counter-derived employee_id values of
\* the created Adjusters are pairwise distinct, and each equals the numeric
\* suffix of that adjuster's own id.
C30_EmployeeIdsFollowIds ==
    \A i \in CounterAdjusters :
        /\ nodes[i].employee_id[2] = nodes[i].id[Len(nodes[i].id)]
        /\ \A j \in CounterAdjusters :
              i # j => nodes[i].employee_id # nodes[j].employee_id

====
